---- MODULE Spec2Model ----
(***************************************************************************)
(* SportsNewsCrawler: the ingestion engine of internal/app/service.go      *)
(* (NewsCrawlerService: Start, runProviderLoop, worker, processProvider,   *)
(* processBatch, generateHash), the crawl loop of                          *)
(* internal/infra/provider/generic_provider.go and the article store of    *)
(* internal/infra/repository/mongodb.go.                                   *)
(*                                                                         *)
(* The specifications share the definitions below; each is introduced      *)
(* where its actions are defined.  The first four:                         *)
(*   Spec       the scheduling machine: Start, the provider loops, the     *)
(*              workers, the job channel and the single-flight map.        *)
(*              processProvider reads and writes none of these, so the     *)
(*              crawl is one step here (ProcessProviderReturn).            *)
(*   SpecCrawl  the workers running crawls concurrently: crawlLoop and     *)
(*              processBatch step by step against the shared store and     *)
(*              event channel.                                             *)
(*   SpecBatch  processBatch called directly by one goroutine, as          *)
(*              service_test.go calls into the service.                    *)
(*   SpecHash   processBatch on one article and then on an edited copy of  *)
(*              what is stored, the fields drawn from bounded strings.     *)
(***************************************************************************)
EXTENDS Integers, Sequences, FiniteSets, TLC

(***************************************************************************)
(* Bounds and program constants                                            *)
(***************************************************************************)
\* workerCount (WORKER_POOL_SIZE), a configuration value
NumWorkers == 2

\* pages an upstream serves before it answers with an empty page
MaxPages == 1

\* longest batch handed to processBatch by the direct caller
MaxBatch == 2

\* longest value of a hashed field in SpecHash
MaxLen == 1

\* latest instant of the wall clock
MaxClock == 2

\* generic_provider.go: const maxSafetyPages = 1000
maxSafetyPages == 1000

\* generic_provider.go: const maxConsecutiveErrors = 5
maxConsecutiveErrors == 5

\* generic_provider.go, executeRequest: maxRetries := 3
maxRetries == 3

\* generic_provider.go, cbSettings: MaxRequests: 1
cbMaxRequests == 1

\* generic_provider.go, cbSettings.ReadyToTrip: ConsecutiveFailures >= 3
cbTripThreshold == 3

\* crawls the direct caller of a provider makes
MaxCrawls == 4

\* largest id an upstream gives an entry
MaxExternalId == 2

\* messages the consumer reads from the main topic
MaxMsgs == 3

\* the zero time.Time, the value of a time field nobody sets
ZeroTime == 0

Workers == 1..NumWorkers

\* the goroutine that calls processBatch directly (SpecBatch, SpecHash)
Direct == NumWorkers + 1

Callers == Workers \cup {Direct}

\* s.providers: two configured sources, both using the pulselive transformer
Providers == {"feedA", "feedB"}

\* a further entry of sources.json that carries the name of feedA and
\* another URL: SourceConfig.Validate and NewProviders accept any non-empty
\* name, so two configured sources can share one
Twin == "feedA (second entry)"

\* GenericProvider.GetName: p.name, the Name of the provider's entry
GetName(p) == IF p = Twin THEN "feedA" ELSE p

\* s.providers when sources.json holds the two entries named feedA
TwinProviders == {"feedA", Twin}

\* make(chan job, workerCount*2)
JobsCap == NumWorkers * 2

VARIABLES
    ctxDone,          \* ctx of Start has been cancelled
    startPc,          \* where Start is
    jobs,             \* s.jobs: the buffered channel's content
    jobsClosed,       \* close(s.jobs) has run
    ppc,              \* per provider: where runProviderLoop is
    wpc,              \* per worker: where worker is
    wjob,             \* per worker: the job j it holds
    activeProviders,  \* s.activeProviders: the keys of the sync.Map
    crawl,            \* per worker: the locals of crawlLoop
    pb,               \* per caller: the locals of processBatch
    store,            \* the articles collection: id -> document
    clock,            \* the wall clock, time.Now()
    cb,               \* per provider: p.cb, its circuit breaker
    req,              \* per worker: the locals of executeRequest
    sync,             \* the CMS sync consumer: KafkaConsumer.Start and its handler
    closed,           \* the resources whose OnStop hook has run
    entries,          \* the upstream entries transformed so far, with their articles
    WorkerActiveCount, \* metrics.WorkerActiveCount, the worker_active_count gauge
    sampler           \* an ErrorSampler: its interval and its counts

vars == <<ctxDone, startPc, jobs, jobsClosed, ppc, wpc, wjob, activeProviders,
          crawl, pb, store, clock, cb, req, sync, closed, entries,
          WorkerActiveCount, sampler>>

schedVars == <<ctxDone, startPc, jobs, jobsClosed, ppc, wpc, wjob, activeProviders>>

\* the provider adapter's request state, the sync consumer, the closed
\* resources, the transformed entries, the gauge of the workers and the
\* error sampler
netVars == <<cb, req, sync, closed, entries, WorkerActiveCount, sampler>>

dataVars == <<crawl, pb, store, clock, netVars>>

(***************************************************************************)
(* Articles (internal/domain/article.go)                                   *)
(***************************************************************************)
\* A string is a sequence of characters.  The fields of domain.Article that
\* no modelled code reads (ExternalID, Type, Description, Content,
\* PublishedAt, UpdatedAt) are left out.
Alphabet == {"a"}

Strs == UNION {[1..n -> Alphabet] : n \in 0..MaxLen}

\* ContentHash of an article nobody hashed yet: the empty string
NoHash == <<>>

\* hex(SHA-256(x)): SHA-256 is taken to be injective, so the digest of a byte
\* string is the byte string itself under a marker that keeps it apart from
\* the empty ContentHash.
Sha256Hex(bytes) == <<"sha256:">> \o bytes

\* Article.ComputeHash
ComputeHash(a) == Sha256Hex(a.source \o a.url \o a.title \o a.summary \o a.body)

\* the first version of generateHash, which left the URL out
generateHashNoURL(a) == Sha256Hex(a.source \o a.title \o a.summary \o a.body)

\* a generateHash that also feeds the tags to the hasher
generateHashWithTags(a) ==
    Sha256Hex(a.source \o a.url \o a.title \o a.summary \o a.body \o a.tags)

\* generateHash: five hasher.Write calls, no separator between the fields
generateHash(a) == Sha256Hex(a.source \o a.url \o a.title \o a.summary \o a.body)

\* what a transformer returns for one upstream entry: FetchedAt and
\* ContentHash are not set by any transformer
MkArticle(id, source, url, title, summary, body, tags, imageUrl) ==
    [id |-> id, source |-> source, url |-> url, title |-> title,
     summary |-> summary, body |-> body, tags |-> tags, imageUrl |-> imageUrl,
     fetchedAt |-> ZeroTime, contentHash |-> NoHash]

\* the entries the upstreams of the batch specifications serve
A1 == MkArticle("s_1", <<"s">>, <<"u">>, <<"t">>, <<>>, <<"x">>, <<>>, <<>>)

\* A1 with a new tag
A1t == MkArticle("s_1", <<"s">>, <<"u">>, <<"t">>, <<>>, <<"x">>, <<"g">>, <<>>)

\* A1 with another body
A1b == MkArticle("s_1", <<"s">>, <<"u">>, <<"t">>, <<>>, <<"y">>, <<>>, <<>>)

A2 == MkArticle("s_2", <<"s">>, <<"v">>, <<"t">>, <<>>, <<"x">>, <<>>, <<>>)

BatchArticles == {A1, A1t, A1b, A2}

\* the articles argument of a direct processBatch call
BatchInputs == UNION {[1..n -> BatchArticles] : n \in 0..MaxBatch}

\* one page of a crawl: both sources serve the same upstream entity
CrawlPages == {<<A1>>, <<A1b>>}

\* the articles of SpecHash: what an upstream can serve for the entity s_1.
\* The transformers derive id and Source from the same label
\* (ID = "<source>_<id>"), so the source of one id is fixed; url, title,
\* summary and body are drawn from Strs; the entry has no tag and no image,
\* or a tag, or an image.
HashArticles ==
    {MkArticle("s_1", <<"s">>, f[1], f[2], f[3], f[4], o[1], o[2]) :
        f \in [1..4 -> Strs],
        o \in {<<<<>>, <<>>>>, <<<<"g">>, <<>>>>, <<<<>>, <<"i">>>>}}

Ids == {"s_1", "s_2"}

\* no document with that _id
Absent == [id |-> "absent"]

SameContent(a, b) ==
    /\ a.source = b.source /\ a.url = b.url /\ a.title = b.title
    /\ a.summary = b.summary /\ a.body = b.body


(***************************************************************************)
(* The article store (internal/infra/repository/mongodb.go)                *)
(***************************************************************************)
\* the collection before the first write
EmptyStore == [id \in Ids |-> Absent]

\* MongoRepository.GetContentHashes: {id -> content_hash} of the documents
\* whose _id is in ids; absent ids are omitted
GetContentHashes(ids) ==
    [id \in {i \in ids : store[i] # Absent} |-> store[id].contentHash]

\* the collection after the update models of the set written have been
\* applied: {"$set": article} with upsert, filtered by _id
ApplyUpserts(articles, written) ==
    [id \in Ids |->
        IF \E k \in written : articles[k].id = id
        THEN articles[CHOOSE k \in written : articles[k].id = id]
        ELSE store[id]]

\* MongoRepository.BulkUpsert returning nil: every model was applied
BulkUpsert(articles) == ApplyUpserts(articles, 1..Len(articles))

(***************************************************************************)
(* processBatch (internal/app/service.go)                                  *)
(***************************************************************************)
RECURSIVE DedupFrom(_, _, _)
\* the "Dedup within batch" loop from element i on, acc the survivors so far
DedupFrom(articles, i, acc) ==
    IF i > Len(articles) THEN acc
    ELSE IF \E k \in 1..Len(acc) : acc[k].id = articles[i].id
         THEN DedupFrom(articles, i + 1, acc)
         ELSE DedupFrom(articles, i + 1, Append(acc, articles[i]))

\* a dedup that keeps the last copy of every id
uniqueArticlesLastWins(articles) ==
    LET n == Len(articles)
        last == {i \in 1..n : \A k \in (i + 1)..n : articles[k].id # articles[i].id}
        pick[i \in 0..n] ==
            IF i = 0 THEN <<>>
            ELSE IF i \in last THEN Append(pick[i - 1], articles[i]) ELSE pick[i - 1]
    IN  pick[n]

\* uniqueArticles: the first copy of every id, in batch order
uniqueArticles(articles) == DedupFrom(articles, 1, <<>>)

\* "1. Calculate Hashes": articles[i].ContentHash = generateHash(&articles[i])
withHashes(articles) ==
    [i \in 1..Len(articles) |->
        [articles[i] EXCEPT !.contentHash = generateHash(articles[i])]]

\* the articles of caller c's batch after dedup and hashing
batchArticles(c) == withHashes(uniqueArticles(pb[c].input))

batchIds(c) == {pb[c].input[k].id : k \in 1..Len(pb[c].input)}

\* a classification whose hash comparison is inverted
changedArticlesInverted(articles, existingHashes) ==
    SelectSeq(articles,
              LAMBDA a : \/ a.id \notin DOMAIN existingHashes
                         \/ existingHashes[a.id] = a.contentHash)

\* "3. Identify Changed Articles": New (no stored hash) or Changed (another
\* stored hash)
changedArticles(articles, existingHashes) ==
    SelectSeq(articles,
              LAMBDA a : \/ a.id \notin DOMAIN existingHashes
                         \/ existingHashes[a.id] # a.contentHash)

\* the locals of a processBatch call that has not started
PbIdle ==
    [pc |-> "idle", input |-> <<>>, changed |-> <<>>, skipped |-> 0,
     upsert |-> "none", publish |-> "none", published |-> {}, publishErrors |-> 0,
     before |-> EmptyStore, persist |-> EmptyStore, start |-> ZeroTime, repeat |-> FALSE,
     owed |-> {}]

\* the ids caller c's last call classified New or Changed and stored, and
\* for which PublishBatch wrote no message
Unpublished(c) ==
    IF pb[c].upsert = "ok"
    THEN {pb[c].changed[k].id : k \in 1..Len(pb[c].changed)} \ pb[c].published
    ELSE {}

\* processBatch entered with `articles`: start := time.Now(), dedup, return
\* nil on an empty batch.  before, start, repeat and owed record the call for
\* the properties: the store as the call found it, the processing instant,
\* whether the caller's previous call took the same batch and returned nil,
\* and the events that previous call of the same batch left unpublished.
ProcessBatchEnter(c, articles) ==
    [PbIdle EXCEPT
        !.pc = IF Len(uniqueArticles(articles)) = 0 THEN "ok" ELSE "hashes",
        !.input = articles,
        !.before = store,
        !.start = clock,
        !.repeat = (pb[c].pc = "ok" /\ pb[c].input = articles),
        !.owed = IF pb[c].pc = "ok" /\ pb[c].input = articles
                 THEN Unpublished(c) ELSE {}]

\* "2. Fetch Existing Hashes" returns a map; the classification loop follows
GetContentHashesOk(c) ==
    /\ pb[c].pc = "hashes"
    /\ LET articles == batchArticles(c)
           existingHashes == GetContentHashes(batchIds(c))
           changed == changedArticles(articles, existingHashes)
       IN  pb' = [pb EXCEPT ![c].pc = "upsert",
                            ![c].changed = changed,
                            ![c].skipped = Len(articles) - Len(changed)]
    /\ UNCHANGED <<schedVars, netVars, crawl, store, clock>>

\* a processBatch that writes the batch before it looks at the error of the
\* hash lookup
GetContentHashesErrAfterUpsert(c) ==
    /\ pb[c].pc = "hashes"
    /\ store' = BulkUpsert(batchArticles(c))
    /\ pb' = [pb EXCEPT ![c].pc = "err"]
    /\ UNCHANGED <<schedVars, netVars, crawl, clock>>

\* "2. Fetch Existing Hashes" fails: return "failed to fetch hashes"
GetContentHashesErr(c) ==
    /\ pb[c].pc = "hashes"
    /\ pb' = [pb EXCEPT ![c].pc = "err"]
    /\ UNCHANGED <<schedVars, netVars, crawl, store, clock>>

\* a processBatch that publishes before it knows the upsert succeeded
BulkUpsertErrThenPublish(c) ==
    /\ pb[c].pc = "upsert"
    /\ pb' = [pb EXCEPT ![c].pc = "publish", ![c].upsert = "err",
                        ![c].persist = store]
    /\ UNCHANGED <<schedVars, netVars, crawl, store, clock>>

\* "4. Bulk Upsert" returns nil: all articles are written, Unchanged included
BulkUpsertOk(c) ==
    /\ pb[c].pc = "upsert"
    /\ store' = BulkUpsert(batchArticles(c))
    /\ pb' = [pb EXCEPT ![c].pc = IF Len(pb[c].changed) > 0 THEN "publish" ELSE "ok",
                        ![c].upsert = "ok",
                        ![c].persist = store]
    /\ UNCHANGED <<schedVars, netVars, crawl, clock>>

\* "4. Bulk Upsert" fails: the unordered bulk write applied some of its
\* models, processBatch returns "bulk upsert failed"
BulkUpsertErr(c) ==
    /\ pb[c].pc = "upsert"
    /\ \E written \in SUBSET (1..Len(batchArticles(c))) :
          /\ written # 1..Len(batchArticles(c))
          /\ store' = ApplyUpserts(batchArticles(c), written)
    /\ pb' = [pb EXCEPT ![c].pc = "err", ![c].upsert = "err", ![c].persist = store]
    /\ UNCHANGED <<schedVars, netVars, crawl, clock>>

\* EventProducer.PublishBatch returns nil: one message per changed article,
\* keyed by its id.  The main topic is append-only and the engine never reads
\* it, so the messages a call appended are kept with the call (published).
PublishBatchOk(c) ==
    /\ pb[c].pc = "publish"
    /\ pb' = [pb EXCEPT ![c].pc = "ok",
                        ![c].publish = "ok",
                        ![c].published =
                            {pb[c].changed[k].id : k \in 1..Len(pb[c].changed)}]
    /\ UNCHANGED <<schedVars, netVars, crawl, store, clock>>

\* a processBatch that returns the publish error to its caller
PublishBatchErrReturned(c) ==
    /\ pb[c].pc = "publish"
    /\ pb' = [pb EXCEPT ![c].pc = "err", ![c].publish = "err",
                        ![c].publishErrors = pb[c].publishErrors + 1]
    /\ UNCHANGED <<schedVars, netVars, crawl, store, clock>>

\* EventProducer.PublishBatch fails: PublishErrors.Inc(), "Continue even if
\* publish fails, data is in DB", return nil.  A failed batch write may have
\* appended some of its messages.
PublishBatchErr(c) ==
    /\ pb[c].pc = "publish"
    /\ \E sent \in SUBSET {pb[c].changed[k].id : k \in 1..Len(pb[c].changed)} :
          pb' = [pb EXCEPT ![c].pc = "ok", ![c].publish = "err",
                           ![c].published = sent,
                           ![c].publishErrors = pb[c].publishErrors + 1]
    /\ UNCHANGED <<schedVars, netVars, crawl, store, clock>>

\* the steps of a processBatch call of caller c
ProcessBatchStep(c) ==
    \/ GetContentHashesOk(c)
    \/ GetContentHashesErr(c)
    \/ BulkUpsertOk(c)
    \/ BulkUpsertErr(c)
    \/ PublishBatchOk(c)
    \/ PublishBatchErr(c)


(***************************************************************************)
(* The state every specification starts from                               *)
(***************************************************************************)
\* NewNewsCrawlerService, then Start up to "<-ctx.Done()": the workers and
\* the provider loops have been spawned
SchedInit ==
    /\ ctxDone = FALSE
    /\ startPc = "waitCtx"
    /\ jobs = <<>>
    /\ jobsClosed = FALSE
    /\ ppc = [p \in Providers |-> "initial"]
    /\ wpc = [w \in Workers |-> "recv"]
    /\ wjob = [w \in Workers |-> "none"]
    /\ activeProviders = {}

\* the locals of a crawlLoop that is not running; pageInfo is <<>> for a nil
\* *PageInfo and <<n>> for one with NumPages n.  The other fields record the
\* call for the properties: the number of fetchSinglePage calls, the page
\* index of the last one, the number of handler calls, the result of the last
\* one, whether all of them failed or succeeded, whether the last page was
\* empty, what made crawlLoop return an error, the number of Crawl calls the
\* direct caller made before this one and how many of them, counted back from
\* the last, returned an error; and, once the worker is back at its loop, how
\* its last processProvider call returned.
CrawlIdle == [pc |-> "idle", page |-> 0, numPages |-> -1, consecutiveErrors |-> 0,
              pageInfo |-> <<>>, err |-> FALSE,
              fetches |-> 0, requested |-> -1, handled |-> 0, lastHandler |-> "none",
              allFailed |-> TRUE, allOk |-> TRUE, empty |-> FALSE, abort |-> "none",
              calls |-> 0, prevFailed |-> 0, returned |-> "none"]

\* gobreaker.NewCircuitBreaker(cbSettings): closed, counts cleared, the
\* counting interval running.  gauge is circuit_breaker_state{name}: <<>>
\* while no state change has set it, else <<0>>, <<1>> or <<2>>.  streak,
\* rolled and only5xx record the calls for the properties: the consecutive
\* failures of the wrapped operation since its last success (counted up to
\* the trip threshold), whether a counting interval ended since the streak
\* began, whether every attempt so far got an HTTP response with a status
\* >= 500, and the streak at which the breaker last tripped from closed.
CbInit ==
    [state |-> "closed", requests |-> 0, consecutiveSuccesses |-> 0,
     consecutiveFailures |-> 0, expired |-> FALSE, gauge |-> <<>>,
     streak |-> 0, rolled |-> FALSE, only5xx |-> TRUE, trippedAt |-> 0]

\* the locals of an executeRequest call that has not started: i the loop
\* index, attempts the client.Do calls made, last the outcome of the last
\* one, result and how the way the call ended
ReqIdle ==
    [pc |-> "idle", i |-> 0, attempts |-> 0, last |-> "none",
     result |-> "none", how |-> "none", cancelSeen |-> FALSE]

\* the consumer before its first ReadMessage: nothing consumed, nothing on
\* the DLQ topic, the counters at zero.  For the message being handled the
\* record keeps the article, the CMS calls and their result, and the DLQ
\* publish attempts, their article and their result.  consumed is the number
\* of messages the reader has returned (the offset it fetches next),
\* committed the offset the consumer group has committed, skipped the number
\* of messages json.Unmarshal rejected, readErrors the number of errors
\* ReadMessage returned.
SyncInit ==
    [pc |-> "read", consumed |-> 0, article |-> Absent, wellFormed |-> FALSE,
     cmsCalls |-> 0, cmsResult |-> "none", dlqAttempts |-> 0, dlqResult |-> "none",
     dlqArticle |-> Absent, dlqTopic |-> <<>>, dlqMessagesPublished |-> 0,
     cmsSyncErrors |-> 0, committed |-> 0, skipped |-> 0, readErrors |-> 0]

\* the error keys the callers of the sampler use
SamplerKeys == {"error_a", "error_b"}

\* no ErrorSampler has been constructed.  counts[k] is s.counts[k], which is
\* 0 for a key the map does not hold.  calls and last record the calls for
\* the properties: the ShouldLog calls per key since the key's count was last
\* cleared, and the last call with its key, the count it saw and its result.
NoSampler ==
    [interval |-> 0, counts |-> [k \in SamplerKeys |-> 0],
     calls |-> [k \in SamplerKeys |-> 0],
     last |-> [op |-> "none", key |-> "none", count |-> 0, result |-> FALSE]]

DataInit ==
    /\ crawl = [c \in Callers |-> CrawlIdle]
    /\ pb = [c \in Callers |-> PbIdle]
    /\ store = EmptyStore
    /\ clock = 1
    /\ cb = [p \in Providers |-> CbInit]
    /\ req = [c \in Callers |-> ReqIdle]
    /\ sync = SyncInit
    /\ closed = {}
    /\ entries = {}
    /\ WorkerActiveCount = 0
    /\ sampler = NoSampler

Init == SchedInit /\ DataInit

(***************************************************************************)
(* Start, runProviderLoop and worker (internal/app/service.go)             *)
(***************************************************************************)
\* the shutdown signal: the ctx passed to Start is cancelled
Cancel ==
    /\ ~ctxDone
    /\ ctxDone' = TRUE
    /\ UNCHANGED <<startPc, jobs, jobsClosed, ppc, wpc, wjob, activeProviders, dataVars>>

\* Start: "<-ctx.Done()" returns
StartCtxDone ==
    /\ startPc = "waitCtx"
    /\ ctxDone
    /\ startPc' = "waitProviders"
    /\ UNCHANGED <<ctxDone, jobs, jobsClosed, ppc, wpc, wjob, activeProviders, dataVars>>

\* a Start that does not wait for the provider loops before it closes s.jobs
StartProvidersWaitSkipped ==
    /\ startPc = "waitProviders"
    /\ startPc' = "closeJobs"
    /\ UNCHANGED <<ctxDone, jobs, jobsClosed, ppc, wpc, wjob, activeProviders, dataVars>>

\* Start: providersWg.Wait() returns once every runProviderLoop has run its
\* deferred wg.Done()
StartProvidersWait ==
    /\ startPc = "waitProviders"
    /\ \A p \in Providers : ppc[p] = "exited"
    /\ startPc' = "closeJobs"
    /\ UNCHANGED <<ctxDone, jobs, jobsClosed, ppc, wpc, wjob, activeProviders, dataVars>>

\* a Start that goes on to wait for the workers without closing s.jobs
StartNeverClosesJobs ==
    /\ startPc = "closeJobs"
    /\ startPc' = "waitWorkers"
    /\ UNCHANGED <<ctxDone, jobs, jobsClosed, ppc, wpc, wjob, activeProviders, dataVars>>

\* Start: close(s.jobs)
StartCloseJobs ==
    /\ startPc = "closeJobs"
    /\ jobsClosed' = TRUE
    /\ startPc' = "waitWorkers"
    /\ UNCHANGED <<ctxDone, jobs, ppc, wpc, wjob, activeProviders, dataVars>>

\* Start: s.wg.Wait() returns once every worker has run its deferred
\* s.wg.Done(); Start returns
StartWorkersWait ==
    /\ startPc = "waitWorkers"
    /\ \A w \in Workers : wpc[w] = "exited"
    /\ startPc' = "done"
    /\ UNCHANGED <<ctxDone, jobs, jobsClosed, ppc, wpc, wjob, activeProviders, dataVars>>

\* a send that gives the job up when the buffer is full
SendJobDropsWhenFull(p, next) ==
    /\ IF jobsClosed
       THEN /\ ppc' = [ppc EXCEPT ![p] = "panic"]
            /\ jobs' = jobs
       ELSE /\ jobs' = IF Len(jobs) < JobsCap THEN Append(jobs, p) ELSE jobs
            /\ ppc' = [ppc EXCEPT ![p] = next]
    /\ UNCHANGED <<ctxDone, startPc, jobsClosed, wpc, wjob, activeProviders, dataVars>>

\* the send case "s.jobs <- job{provider: p}" of a select: it can be taken
\* when the buffer has room; a send on a closed channel panics
SendJob(p, next) ==
    /\ IF jobsClosed
       THEN /\ ppc' = [ppc EXCEPT ![p] = "panic"]
            /\ jobs' = jobs
       ELSE /\ Len(jobs) < JobsCap
            /\ jobs' = Append(jobs, p)
            /\ ppc' = [ppc EXCEPT ![p] = next]
    /\ UNCHANGED <<ctxDone, startPc, jobsClosed, wpc, wjob, activeProviders, dataVars>>

\* the case "<-ctx.Done(): return" of a select, then the deferred wg.Done()
\* and ticker.Stop()
ProviderReturn(p) ==
    /\ ctxDone
    /\ ppc' = [ppc EXCEPT ![p] = "exited"]
    /\ UNCHANGED <<ctxDone, startPc, jobs, jobsClosed, wpc, wjob, activeProviders, dataVars>>

\* runProviderLoop, "Initial fetch" select: the send case
ProviderInitialSend(p) ==
    /\ ppc[p] = "initial"
    /\ SendJob(p, "tick")

\* runProviderLoop, "Initial fetch" select: the ctx.Done case
ProviderInitialCancel(p) ==
    /\ ppc[p] = "initial"
    /\ ProviderReturn(p)

\* runProviderLoop, outer select of the loop: the ticker.C case
ProviderTick(p) ==
    /\ ppc[p] = "tick"
    /\ ppc' = [ppc EXCEPT ![p] = "send"]
    /\ UNCHANGED <<ctxDone, startPc, jobs, jobsClosed, wpc, wjob, activeProviders, dataVars>>

\* runProviderLoop, outer select of the loop: the ctx.Done case
ProviderTickCancel(p) ==
    /\ ppc[p] = "tick"
    /\ ProviderReturn(p)

\* runProviderLoop, inner select: the send case
ProviderSend(p) ==
    /\ ppc[p] = "send"
    /\ SendJob(p, "tick")

\* runProviderLoop, inner select: the ctx.Done case
ProviderSendCancel(p) ==
    /\ ppc[p] = "send"
    /\ ProviderReturn(p)

\* a worker that leaves its loop on cancellation instead of ranging until
\* the channel is closed and empty
WorkerRangeEndOnCancel(w) ==
    /\ wpc[w] = "recv"
    /\ ctxDone
    /\ wpc' = [wpc EXCEPT ![w] = "exited"]
    /\ UNCHANGED <<ctxDone, startPc, jobs, jobsClosed, ppc, wjob, activeProviders, dataVars>>

\* worker, "for j := range s.jobs": a job is received
WorkerReceive(w) ==
    /\ wpc[w] = "recv"
    /\ Len(jobs) > 0
    /\ wjob' = [wjob EXCEPT ![w] = Head(jobs)]
    /\ jobs' = Tail(jobs)
    /\ wpc' = [wpc EXCEPT ![w] = "loadOrStore"]
    /\ UNCHANGED <<ctxDone, startPc, jobsClosed, ppc, activeProviders, dataVars>>

\* worker, "for j := range s.jobs": the channel is closed and empty, the
\* loop ends and the deferred s.wg.Done() runs
WorkerRangeEnd(w) ==
    /\ wpc[w] = "recv"
    /\ Len(jobs) = 0
    /\ jobsClosed
    /\ wpc' = [wpc EXCEPT ![w] = "exited"]
    /\ UNCHANGED <<ctxDone, startPc, jobs, jobsClosed, ppc, wjob, activeProviders, dataVars>>

\* the locals of crawlLoop on entry
CrawlEntered == [CrawlIdle EXCEPT !.pc = "loop"]

\* a guard that stores the name and crawls whether or not it was present
LoadOrStoreIgnoresLoaded(w) ==
    /\ wpc[w] = "loadOrStore"
    /\ activeProviders' = activeProviders \cup {GetName(wjob[w])}
    /\ WorkerActiveCount' = WorkerActiveCount + 1
    /\ wpc' = [wpc EXCEPT ![w] = "crawl"]
    /\ wjob' = wjob
    /\ crawl' = [crawl EXCEPT ![w] = CrawlEntered]
    /\ UNCHANGED <<ctxDone, startPc, jobs, jobsClosed, ppc, pb, store, clock,
                   cb, req, sync, closed, entries, sampler>>

\* a worker that counts a skipped job as active
LoadOrStoreCountsSkipped(w) ==
    /\ wpc[w] = "loadOrStore"
    /\ WorkerActiveCount' = WorkerActiveCount + 1
    /\ IF GetName(wjob[w]) \in activeProviders
       THEN /\ wpc' = [wpc EXCEPT ![w] = "recv"]
            /\ wjob' = [wjob EXCEPT ![w] = "none"]
            /\ UNCHANGED <<activeProviders, crawl>>
       ELSE /\ activeProviders' = activeProviders \cup {GetName(wjob[w])}
            /\ wpc' = [wpc EXCEPT ![w] = "crawl"]
            /\ wjob' = wjob
            /\ crawl' = [crawl EXCEPT ![w] = CrawlEntered]
    /\ UNCHANGED <<ctxDone, startPc, jobs, jobsClosed, ppc, pb, store, clock,
                   cb, req, sync, closed, entries, sampler>>

\* worker: s.activeProviders.LoadOrStore(name, true).  loaded: "Skipping
\* concurrent run", continue.  Stored: metrics.WorkerActiveCount.Inc(), then
\* processProvider is entered and calls provider.Crawl
WorkerLoadOrStore(w) ==
    /\ wpc[w] = "loadOrStore"
    /\ IF GetName(wjob[w]) \in activeProviders
       THEN /\ wpc' = [wpc EXCEPT ![w] = "recv"]
            /\ wjob' = [wjob EXCEPT ![w] = "none"]
            /\ UNCHANGED <<activeProviders, crawl, WorkerActiveCount>>
       ELSE /\ activeProviders' = activeProviders \cup {GetName(wjob[w])}
            /\ WorkerActiveCount' = WorkerActiveCount + 1
            /\ wpc' = [wpc EXCEPT ![w] = "crawl"]
            /\ wjob' = wjob
            /\ crawl' = [crawl EXCEPT ![w] = CrawlEntered]
    /\ UNCHANGED <<ctxDone, startPc, jobs, jobsClosed, ppc, pb, store, clock,
                   cb, req, sync, closed, entries, sampler>>

\* how a crawl that has come to its end returned
Returned(c) ==
    IF c.pc = "done" THEN (IF c.err THEN "err" ELSE "ok") ELSE "none"

\* a worker that deletes the name only after a crawl without error
WorkerCrawlDoneLeaksOnError(w) ==
    /\ wpc[w] = "crawl"
    /\ activeProviders' = IF crawl[w].err THEN activeProviders
                          ELSE activeProviders \ {GetName(wjob[w])}
    /\ WorkerActiveCount' = WorkerActiveCount - 1
    /\ wpc' = [wpc EXCEPT ![w] = "recv"]
    /\ wjob' = [wjob EXCEPT ![w] = "none"]
    /\ crawl' = [crawl EXCEPT ![w] = [CrawlIdle EXCEPT !.returned = Returned(crawl[w])]]
    /\ UNCHANGED <<ctxDone, startPc, jobs, jobsClosed, ppc, pb, store, clock,
                   cb, req, sync, closed, entries, sampler>>

\* worker: processProvider has returned, "defer s.activeProviders.Delete(name)"
\* runs, then metrics.WorkerActiveCount.Dec(), and the loop goes on
WorkerCrawlDone(w) ==
    /\ wpc[w] = "crawl"
    /\ activeProviders' = activeProviders \ {GetName(wjob[w])}
    /\ WorkerActiveCount' = WorkerActiveCount - 1
    /\ wpc' = [wpc EXCEPT ![w] = "recv"]
    /\ wjob' = [wjob EXCEPT ![w] = "none"]
    /\ crawl' = [crawl EXCEPT ![w] = [CrawlIdle EXCEPT !.returned = Returned(crawl[w])]]
    /\ UNCHANGED <<ctxDone, startPc, jobs, jobsClosed, ppc, pb, store, clock,
                   cb, req, sync, closed, entries, sampler>>

\* Spec: the whole processProvider call of worker w, from provider.Crawl to
\* its return.  The call touches neither the channel, nor the map, nor ctx.
ProcessProviderReturn(w) ==
    /\ crawl[w].pc = "loop"
    /\ WorkerCrawlDone(w)

Next ==
    \/ Cancel
    \/ StartCtxDone
    \/ StartProvidersWait
    \/ StartCloseJobs
    \/ StartWorkersWait
    \/ \E p \in Providers :
          \/ ProviderInitialSend(p)
          \/ ProviderInitialCancel(p)
          \/ ProviderTick(p)
          \/ ProviderTickCancel(p)
          \/ ProviderSend(p)
          \/ ProviderSendCancel(p)
    \/ \E w \in Workers :
          \/ WorkerReceive(w)
          \/ WorkerRangeEnd(w)
          \/ WorkerLoadOrStore(w)
          \/ ProcessProviderReturn(w)

Spec == Init /\ [][Next]_vars

\* the steps of Start after the goroutines were spawned
StartStep ==
    \/ StartCtxDone
    \/ StartProvidersWait
    \/ StartCloseJobs
    \/ StartWorkersWait

\* the ctx.Done case of whichever select provider loop p is at
ProviderCancelStep(p) ==
    \/ ProviderInitialCancel(p)
    \/ ProviderTickCancel(p)
    \/ ProviderSendCancel(p)

\* the steps of worker w
WorkerStep(w) ==
    \/ WorkerReceive(w)
    \/ WorkerRangeEnd(w)
    \/ WorkerLoadOrStore(w)
    \/ ProcessProviderReturn(w)

\* SpecLive: Spec with the scheduling the runtime gives.  A goroutine that
\* can run does run: Start, and every worker, whose crawl in flight
\* terminates; a select whose ctx.Done case stays ready takes it in the end
\* (the choice among ready cases is uniformly random).  No tick and no send
\* is ever required to happen.
SpecLive ==
    /\ Init
    /\ [][Next]_vars
    /\ WF_vars(StartStep)
    /\ \A p \in Providers : WF_vars(ProviderCancelStep(p))
    /\ \A w \in Workers : WF_vars(WorkerStep(w))

(***************************************************************************)
(* SpecTwinLive: the service running without cancellation, under fair      *)
(* scheduling                                                              *)
(***************************************************************************)
\* the steps of the provider loops of P and of the workers while ctx is not
\* cancelled
NextRun(P) ==
    \/ \E p \in P :
          \/ ProviderInitialSend(p)
          \/ ProviderTick(p)
          \/ ProviderSend(p)
    \/ \E w \in Workers :
          \/ WorkerReceive(w)
          \/ WorkerLoadOrStore(w)
          \/ ProcessProviderReturn(w)

\* the scheduling of a run without cancellation: every ticker keeps firing;
\* a loop blocked on the full queue gets its send through once room is made
\* again and again (the channel serves its blocked senders in their order
\* of arrival); a worker that can run does, and its crawl terminates
FairRun(P) ==
    /\ \A p \in P : WF_vars(ProviderTick(p))
    /\ \A p \in P : SF_vars(ProviderInitialSend(p) \/ ProviderSend(p))
    /\ \A w \in Workers : WF_vars(WorkerStep(w))

\* Start has spawned the workers and the loops of two configured sources of
\* one name
InitTwinLive ==
    /\ ctxDone = FALSE
    /\ startPc = "waitCtx"
    /\ jobs = <<>>
    /\ jobsClosed = FALSE
    /\ ppc = [p \in TwinProviders |-> "initial"]
    /\ wpc = [w \in Workers |-> "recv"]
    /\ wjob = [w \in Workers |-> "none"]
    /\ activeProviders = {}
    /\ DataInit

NextTwinLive == NextRun(TwinProviders)

SpecTwinLive == InitTwinLive /\ [][NextTwinLive]_vars /\ FairRun(TwinProviders)

(***************************************************************************)
(* The lifecycle hooks (cmd/server/main.go, cmd/server/factory) and        *)
(* SpecStop                                                                *)
(***************************************************************************)
\* the resources whose constructor appends an OnStop hook that closes them:
\* the consumer, the two producers and the mongo client
Resources == {"consumer", "dlq_producer", "main_producer", "store"}

\* the OnStop hook of a resource runs.  The lifecycle runs the OnStop hooks
\* one after the other in the reverse of the order they were appended in;
\* the hooks of the resources were appended by their constructors, which ran
\* before RegisterHooks appended the hook whose OnStop is cancel(), so they
\* run after cancel() has returned.  cancel() returns without waiting for
\* Start.
OnStopClose(r) ==
    /\ ctxDone
    /\ r \notin closed
    /\ closed' = closed \cup {r}
    /\ UNCHANGED <<schedVars, cb, req, sync, crawl, pb, store, clock, entries,
                 WorkerActiveCount, sampler>>

NextStop ==
    \/ Next
    \/ \E r \in Resources : OnStopClose(r)

SpecStop == Init /\ [][NextStop]_vars

(***************************************************************************)
(* The transformers (internal/infra/transformer), NewProviders             *)
(* (cmd/server/factory/providers.go) and SpecId                            *)
(***************************************************************************)
\* the configured sources, <<name, transformer>>: NewProviders builds one
\* provider per entry of sources.json, labelled with its name, with the
\* transformer GetTransformer returns for its transformer key.  Two sources
\* read feeds of the same format.
SourceConfigs ==
    {<<"feedA", "pulselive">>, <<"feedB", "pulselive">>, <<"feedC", "dummy">>}

\* const PulseLiveName = "pulselive"
PulseLiveName == <<"pulselive">>

\* the decimal digits of n, as %d and the upstream print it
RECURSIVE Itoa(_)
Itoa(n) == IF n < 10 THEN <<n>> ELSE Itoa(n \div 10) \o <<n % 10>>

\* PulseLiveTransformer.normalize: ID, ExternalID and Source of the article
\* of the entry with id n
normalize(n) ==
    [id |-> PulseLiveName \o <<"_">> \o Itoa(n),
     externalId |-> Itoa(n),
     source |-> PulseLiveName]

\* DummyTransformer.Transform: ID, ExternalID and Source of the article of
\* the item whose id is the string itemId
dummyArticle(itemId) ==
    [id |-> <<"dummy", "_">> \o itemId,
     externalId |-> itemId,
     source |-> <<"dummy">>]

\* the article the transformer of a configured source makes of its
\* upstream's entry n
Transform(cfg, n) ==
    IF cfg[2] = "pulselive" THEN normalize(n) ELSE dummyArticle(Itoa(n))

\* a provider fetches an entry of its upstream and its transformer makes an
\* article of it
TransformEntry ==
    /\ \E cfg \in SourceConfigs, n \in 0..MaxExternalId :
          entries' = entries \cup
                        {[provider |-> cfg[1], entry |-> n, article |-> Transform(cfg, n)]}
    /\ UNCHANGED <<schedVars, cb, req, sync, closed, crawl, pb, store, clock,
                 WorkerActiveCount, sampler>>

NextId == TransformEntry

SpecId == Init /\ [][NextId]_vars

(***************************************************************************)
(* DummyTransformer.Transform's summary and SpecDummy                      *)
(***************************************************************************)
\* longest content of an item of a dummy response
MaxContentLen == 11

\* Summary: item.Content[:10] + "..."
dummySummaryLen == 10

\* the contents an upstream can put in an item: byte strings of every length
\* up to MaxContentLen
Contents == UNION {[1..n -> Alphabet] : n \in 0..MaxContentLen}

\* DummyTransformer.Transform on a decodable response with one item of that
\* content.  The slice expression item.Content[:10] panics at run time when
\* the content is shorter than 10 bytes ("slice bounds out of range"); no
\* caller recovers, so the panic ends the worker's goroutine and with it the
\* process.  Otherwise Transform returns the article, a PageInfo with
\* NumPages 1 and a nil error.
dummyTransform(content) ==
    IF Len(content) < dummySummaryLen
    THEN [panicked |-> TRUE, summary |-> <<>>, body |-> <<>>, numPages |-> 0]
    ELSE [panicked |-> FALSE,
          summary |-> SubSeq(content, 1, dummySummaryLen) \o <<".", ".", ".">>,
          body |-> content,
          numPages |-> 1]

\* the provider of the dummy source fetches a page with one item and its
\* transformer runs on it
DummyTransformEntry ==
    /\ \E content \in Contents :
          entries' = entries \cup
                        {[provider |-> "feedC", entry |-> content,
                          article |-> dummyTransform(content)]}
    /\ UNCHANGED <<schedVars, cb, req, sync, closed, crawl, pb, store, clock,
                   WorkerActiveCount, sampler>>

NextDummy == DummyTransformEntry

SpecDummy == Init /\ [][NextDummy]_vars

(***************************************************************************)
(* crawlLoop (internal/infra/provider/generic_provider.go) and SpecCrawl   *)
(***************************************************************************)
\* a loop whose total-pages test lets one page too many through
CrawlLoopEndsOffByOne(w) ==
    \/ crawl[w].page >= maxSafetyPages
    \/ (crawl[w].numPages # -1 /\ crawl[w].page > crawl[w].numPages)

\* a loop whose safety cap lets one page too many through
CrawlLoopEndsCapOffByOne(w) ==
    \/ crawl[w].page > maxSafetyPages
    \/ (crawl[w].numPages # -1 /\ crawl[w].page >= crawl[w].numPages)

\* the loop condition fails, or "numPages != -1 && page >= numPages": break
CrawlLoopEnds(w) ==
    \/ crawl[w].page >= maxSafetyPages
    \/ (crawl[w].numPages # -1 /\ crawl[w].page >= crawl[w].numPages)

\* crawlLoop leaves the loop and returns nil
CrawlStop(w) ==
    /\ crawl[w].pc = "loop"
    /\ CrawlLoopEnds(w)
    /\ crawl' = [crawl EXCEPT ![w].pc = "done", ![w].err = FALSE]
    /\ UNCHANGED <<schedVars, netVars, pb, store, clock>>

\* the locals of crawlLoop after fetchSinglePage(ctx, pageURL, page) returned:
\* an error ("Error fetching page, stopping crawl", return err), no article
\* ("No articles on page, stopping", break, return nil), or a page, for which
\* handler(articles) is called
afterFetch(c, outcome, pageInfo) ==
    LET fetched == [c EXCEPT !.fetches = c.fetches + 1, !.requested = c.page]
    IN  CASE outcome = "err" ->
                [fetched EXCEPT !.pc = "done", !.err = TRUE, !.abort = "fetch"]
          [] outcome = "empty" ->
                [fetched EXCEPT !.pc = "done", !.err = FALSE, !.empty = TRUE]
          [] outcome = "page" ->
                [fetched EXCEPT !.pc = "handler", !.pageInfo = pageInfo,
                                !.handled = c.handled + 1]

\* fetchSinglePage returns an error (request, breaker or transformer)
CrawlFetchErr(w) ==
    /\ crawl[w].pc = "loop"
    /\ ~CrawlLoopEnds(w)
    /\ crawl' = [crawl EXCEPT ![w] = afterFetch(crawl[w], "err", <<>>)]
    /\ UNCHANGED <<schedVars, netVars, pb, store, clock>>

\* fetchSinglePage returns no article
CrawlFetchEmpty(w) ==
    /\ crawl[w].pc = "loop"
    /\ ~CrawlLoopEnds(w)
    /\ crawl' = [crawl EXCEPT ![w] = afterFetch(crawl[w], "empty", <<>>)]
    /\ UNCHANGED <<schedVars, netVars, pb, store, clock>>

\* fetchSinglePage returns a page and its pageInfo; handler(articles), which
\* is processBatch, is entered.  An upstream serves at most MaxPages pages.
CrawlFetchPage(w) ==
    /\ crawl[w].pc = "loop"
    /\ ~CrawlLoopEnds(w)
    /\ crawl[w].page < MaxPages
    /\ \E articles \in CrawlPages, pageInfo \in {<<>>, <<MaxPages>>} :
          /\ crawl' = [crawl EXCEPT ![w] = afterFetch(crawl[w], "page", pageInfo)]
          /\ pb' = [pb EXCEPT ![w] = ProcessBatchEnter(w, articles)]
    /\ UNCHANGED <<schedVars, netVars, store, clock>>

\* a loop that never resets consecutiveErrors
afterHandlerNoReset(c, failed) ==
    LET errs == IF failed THEN c.consecutiveErrors + 1 ELSE c.consecutiveErrors
        returned == [c EXCEPT !.lastHandler = IF failed THEN "err" ELSE "ok",
                              !.allFailed = c.allFailed /\ failed,
                              !.allOk = c.allOk /\ ~failed,
                              !.consecutiveErrors = errs]
    IN  IF errs >= maxConsecutiveErrors
        THEN [returned EXCEPT !.pc = "done", !.err = TRUE, !.abort = "handler"]
        ELSE [returned EXCEPT
                 !.pc = "loop",
                 !.numPages = IF c.pageInfo # <<>> THEN c.pageInfo[1] ELSE c.numPages,
                 !.pageInfo = <<>>,
                 !.page = c.page + 1]

\* a loop that gives up at the first handler error
afterHandlerStopsOnError(c, failed) ==
    LET returned == [c EXCEPT !.lastHandler = IF failed THEN "err" ELSE "ok",
                              !.allFailed = c.allFailed /\ failed,
                              !.allOk = c.allOk /\ ~failed,
                              !.consecutiveErrors = IF failed THEN 1 ELSE 0]
    IN  IF failed
        THEN [returned EXCEPT !.pc = "done", !.err = TRUE, !.abort = "handler"]
        ELSE [returned EXCEPT
                 !.pc = "loop",
                 !.numPages = IF c.pageInfo # <<>> THEN c.pageInfo[1] ELSE c.numPages,
                 !.pageInfo = <<>>,
                 !.page = c.page + 1]

\* the locals of crawlLoop after handler(articles) returned: count or reset
\* consecutiveErrors, return "too many consecutive handler errors" at
\* maxConsecutiveErrors, else take numPages from pageInfo and page++
afterHandler(c, failed) ==
    LET errs == IF failed THEN c.consecutiveErrors + 1 ELSE 0
        returned == [c EXCEPT !.lastHandler = IF failed THEN "err" ELSE "ok",
                              !.allFailed = c.allFailed /\ failed,
                              !.allOk = c.allOk /\ ~failed,
                              !.consecutiveErrors = errs]
    IN  IF errs >= maxConsecutiveErrors
        THEN [returned EXCEPT !.pc = "done", !.err = TRUE, !.abort = "handler"]
        ELSE [returned EXCEPT
                 !.pc = "loop",
                 !.numPages = IF c.pageInfo # <<>> THEN c.pageInfo[1] ELSE c.numPages,
                 !.pageInfo = <<>>,
                 !.page = c.page + 1]

\* processBatch returned to crawlLoop (its locals are gone)
CrawlHandlerReturn(w) ==
    /\ crawl[w].pc = "handler"
    /\ pb[w].pc \in {"ok", "err"}
    /\ crawl' = [crawl EXCEPT ![w] = afterHandler(crawl[w], pb[w].pc = "err")]
    /\ pb' = [pb EXCEPT ![w] = PbIdle]
    /\ UNCHANGED <<schedVars, netVars, store, clock>>

\* provider.Crawl returned to processProvider, which returns to the worker
CrawlReturn(w) ==
    /\ crawl[w].pc = "done"
    /\ WorkerCrawlDone(w)

\* the job sequences the provider loops can have enqueued before any worker
\* received one: every loop has done its initial send and at most one ticker
\* has fired since
QueuedJobs ==
    {q \in UNION {[1..n -> Providers] : n \in 1..(Cardinality(Providers) + 1)} :
        \A p \in Providers : \E k \in 1..Len(q) : q[k] = p}

\* SpecCrawl starts where the provider loops have filled the queue and wait
\* for their tickers, before the first receive of a worker; from there no
\* ticker fires and nothing is cancelled
InitCrawl ==
    /\ ctxDone = FALSE
    /\ startPc = "waitCtx"
    /\ jobs \in QueuedJobs
    /\ jobsClosed = FALSE
    /\ ppc = [p \in Providers |-> "tick"]
    /\ wpc = [w \in Workers |-> "recv"]
    /\ wjob = [w \in Workers |-> "none"]
    /\ activeProviders = {}
    /\ DataInit

NextCrawl ==
    \E w \in Workers :
        \/ WorkerReceive(w)
        \/ WorkerLoadOrStore(w)
        \/ CrawlStop(w)
        \/ CrawlFetchErr(w)
        \/ CrawlFetchEmpty(w)
        \/ CrawlFetchPage(w)
        \/ ProcessBatchStep(w)
        \/ CrawlHandlerReturn(w)
        \/ CrawlReturn(w)

SpecCrawl == InitCrawl /\ [][NextCrawl]_vars

\* SpecSolo: the crawls of one source alone.  Only feedA's loop has enqueued
\* jobs: its initial send, and one more if its ticker has fired
SoloJobs == {<<"feedA">>, <<"feedA", "feedA">>}

InitSolo ==
    /\ ctxDone = FALSE
    /\ startPc = "waitCtx"
    /\ jobs \in SoloJobs
    /\ jobsClosed = FALSE
    /\ ppc = [p \in Providers |-> IF p = "feedA" THEN "tick" ELSE "initial"]
    /\ wpc = [w \in Workers |-> "recv"]
    /\ wjob = [w \in Workers |-> "none"]
    /\ activeProviders = {}
    /\ DataInit

SpecSolo == InitSolo /\ [][NextCrawl]_vars

\* SpecTwin: the crawls of two configured sources of one name.  Both provider
\* loops have done their initial send and one ticker may have fired since.
TwinJobs ==
    {q \in UNION {[1..n -> TwinProviders] : n \in 2..3} :
        \A p \in TwinProviders : \E k \in 1..Len(q) : q[k] = p}

InitTwin ==
    /\ ctxDone = FALSE
    /\ startPc = "waitCtx"
    /\ jobs \in TwinJobs
    /\ jobsClosed = FALSE
    /\ ppc = [p \in TwinProviders |-> "tick"]
    /\ wpc = [w \in Workers |-> "recv"]
    /\ wjob = [w \in Workers |-> "none"]
    /\ activeProviders = {}
    /\ DataInit

SpecTwin == InitTwin /\ [][NextCrawl]_vars

\* SpecOrder: SpecSolo with an upstream that serves one page more, so that a
\* crawl hands several pages to its handler
OrderFetchPage(w) ==
    /\ crawl[w].pc = "loop"
    /\ ~CrawlLoopEnds(w)
    /\ crawl[w].page <= MaxPages
    /\ \E articles \in CrawlPages, pageInfo \in {<<>>, <<MaxPages + 1>>} :
          /\ crawl' = [crawl EXCEPT ![w] = afterFetch(crawl[w], "page", pageInfo)]
          /\ pb' = [pb EXCEPT ![w] = ProcessBatchEnter(w, articles)]
    /\ UNCHANGED <<schedVars, netVars, store, clock>>

NextOrder ==
    \E w \in Workers :
        \/ WorkerReceive(w)
        \/ WorkerLoadOrStore(w)
        \/ CrawlStop(w)
        \/ CrawlFetchErr(w)
        \/ CrawlFetchEmpty(w)
        \/ OrderFetchPage(w)
        \/ ProcessBatchStep(w)
        \/ CrawlHandlerReturn(w)
        \/ CrawlReturn(w)

SpecOrder == InitSolo /\ [][NextOrder]_vars

(***************************************************************************)
(* SpecLoop: provider.Crawl called directly with a handler of the caller,  *)
(* as the tests of the provider call it                                    *)
(***************************************************************************)
\* the NumPages values a transformer reports in its PageInfo
NumPagesReported == {0, 1, MaxPages + 2}

\* provider.Crawl(ctx, handler) by the direct caller
DirectCrawl ==
    /\ crawl[Direct].pc = "idle"
    /\ crawl' = [crawl EXCEPT ![Direct] = CrawlEntered]
    /\ UNCHANGED <<schedVars, netVars, pb, store, clock>>

\* fetchSinglePage returns a page of an upstream that never runs out of
\* articles, with or without a PageInfo; the caller's handler is entered
LoopFetchPage ==
    /\ crawl[Direct].pc = "loop"
    /\ ~CrawlLoopEnds(Direct)
    /\ \E pageInfo \in {<<>>} \cup {<<n>> : n \in NumPagesReported} :
          crawl' = [crawl EXCEPT ![Direct] = afterFetch(crawl[Direct], "page", pageInfo)]
    /\ UNCHANGED <<schedVars, netVars, pb, store, clock>>

\* the caller's handler returns nil or an error
LoopHandlerReturn ==
    /\ crawl[Direct].pc = "handler"
    /\ \E failed \in BOOLEAN :
          crawl' = [crawl EXCEPT ![Direct] = afterHandler(crawl[Direct], failed)]
    /\ UNCHANGED <<schedVars, netVars, pb, store, clock>>

NextLoop ==
    \/ DirectCrawl
    \/ CrawlStop(Direct)
    \/ CrawlFetchErr(Direct)
    \/ CrawlFetchEmpty(Direct)
    \/ LoopFetchPage
    \/ LoopHandlerReturn

SpecLoop == Init /\ [][NextLoop]_vars

(***************************************************************************)
(* SpecReturn: a worker's processProvider whose handler returns nil or an  *)
(* error, page after page                                                  *)
(***************************************************************************)
\* fetchSinglePage returns a page to the crawl of worker w, with or without a
\* PageInfo, and the handler is entered.  The upstream serves one page more
\* than the handler errors crawlLoop tolerates.
WorkerFetchPage(w) ==
    /\ crawl[w].pc = "loop"
    /\ ~CrawlLoopEnds(w)
    /\ crawl[w].page <= maxConsecutiveErrors
    /\ \E pageInfo \in {<<>>} \cup {<<n>> : n \in NumPagesReported} :
          crawl' = [crawl EXCEPT ![w] = afterFetch(crawl[w], "page", pageInfo)]
    /\ UNCHANGED <<schedVars, netVars, pb, store, clock>>

\* the handler of processProvider, processBatch, returns nil or an error
WorkerHandlerReturn(w) ==
    /\ crawl[w].pc = "handler"
    /\ \E failed \in BOOLEAN :
          crawl' = [crawl EXCEPT ![w] = afterHandler(crawl[w], failed)]
    /\ UNCHANGED <<schedVars, netVars, pb, store, clock>>

NextReturn ==
    \E w \in Workers :
        \/ WorkerReceive(w)
        \/ WorkerLoadOrStore(w)
        \/ CrawlStop(w)
        \/ CrawlFetchErr(w)
        \/ CrawlFetchEmpty(w)
        \/ WorkerFetchPage(w)
        \/ WorkerHandlerReturn(w)
        \/ CrawlReturn(w)

SpecReturn == InitSolo /\ [][NextReturn]_vars

(***************************************************************************)
(* SpecBatch: processBatch called directly                                 *)
(***************************************************************************)
\* the direct caller is between two calls
DirectReady == pb[Direct].pc \in {"idle", "ok", "err"}

\* s.processBatch(ctx, provider, articles) by the direct caller
DirectCall(articles) ==
    /\ DirectReady
    /\ pb' = [pb EXCEPT ![Direct] = ProcessBatchEnter(Direct, articles)]
    /\ UNCHANGED <<schedVars, netVars, crawl, store, clock>>

\* time passes between two calls
ClockTick ==
    /\ DirectReady
    /\ clock < MaxClock
    /\ clock' = clock + 1
    /\ UNCHANGED <<schedVars, netVars, crawl, pb, store>>

NextBatch ==
    \/ \E articles \in BatchInputs : DirectCall(articles)
    \/ ClockTick
    \/ ProcessBatchStep(Direct)

SpecBatch == Init /\ [][NextBatch]_vars


(***************************************************************************)
(* SpecHash: an article is processed, then an edited copy of what is       *)
(* stored is processed                                                     *)
(***************************************************************************)
\* the first fetch of the entry: any article
HashFirstCall ==
    /\ store["s_1"] = Absent
    /\ \E a \in HashArticles : DirectCall(<<a>>)

\* the entry comes back with other tags or another image, its content fields
\* as stored
HashEditOther ==
    /\ store["s_1"] # Absent
    /\ \E a \in HashArticles :
          /\ SameContent(a, store["s_1"])
          /\ DirectCall(<<a>>)

\* the content fields in which two articles of one source differ
ContentDiff(a, b) ==
    {f \in {"url", "title", "summary", "body"} : a[f] # b[f]}

\* the entry comes back after an upstream edit of one content field, or of
\* two (text moved from one field to another), its tags and image as stored
HashEditContent ==
    /\ store["s_1"] # Absent
    /\ \E a \in HashArticles :
          /\ a.tags = store["s_1"].tags
          /\ a.imageUrl = store["s_1"].imageUrl
          /\ ContentDiff(a, store["s_1"]) # {}
          /\ Cardinality(ContentDiff(a, store["s_1"])) <= 2
          /\ DirectCall(<<a>>)

NextHash ==
    \/ HashFirstCall
    \/ HashEditOther
    \/ HashEditContent
    \/ ProcessBatchStep(Direct)

SpecHash == Init /\ [][NextHash]_vars

(***************************************************************************)
(* Properties of processBatch                                              *)
(***************************************************************************)
\* the hash the store held for id when the call of caller c began
StoredHashBefore(c, id) ==
    IF pb[c].before[id] = Absent THEN NoHash ELSE pb[c].before[id].contentHash

\* the ids of the input articles whose hash the store did not hold before
ChangedIds(c, articles) ==
    {articles[k].id : k \in {i \in 1..Len(articles) :
        StoredHashBefore(c, articles[i].id) # ComputeHash(articles[i])}}

\* the first article of every id, in the order of the batch
FirstOccurrences(articles) ==
    LET n == Len(articles)
        first == {i \in 1..n : \A k \in 1..(i - 1) : articles[k].id # articles[i].id}
        pick[i \in 0..n] ==
            IF i = 0 THEN <<>>
            ELSE IF i \in first THEN Append(pick[i - 1], articles[i]) ELSE pick[i - 1]
    IN  pick[n]

\* every article of `articles` is stored under its own ComputeHash
StoredWithHash(articles) ==
    \A k \in 1..Len(articles) :
        /\ store[articles[k].id] # Absent
        /\ store[articles[k].id].contentHash = ComputeHash(articles[k])

C6_StoreWriteBeforeEmit ==
    \A c \in Callers :
        /\ (pb[c].pc = "publish" \/ pb[c].publish # "none") => pb[c].upsert = "ok"
        /\ pb[c].upsert = "err" =>
              /\ pb[c].pc = "err"
              /\ pb[c].publish = "none"
              /\ pb[c].published = {}

\* BulkUpsert failed on a batch that had articles to publish
C6_Witness ==
    /\ pb[Direct].upsert = "err"
    /\ pb[Direct].pc = "err"
    /\ Len(pb[Direct].changed) > 0

\* C7: processBatch(B) called again right after it returned nil for the same
\* B finds no changed article and publishes nothing, and still upserts every
\* article of B.
C7_SecondCallEmitsNothing ==
    pb[Direct].repeat =>
        /\ pb[Direct].changed = <<>>
        /\ pb[Direct].pc # "publish"
        /\ pb[Direct].publish = "none"
        /\ pb[Direct].published = {}
        /\ pb[Direct].pc \in {"upsert", "ok"} =>
              pb[Direct].skipped = Len(FirstOccurrences(pb[Direct].input))
        /\ (pb[Direct].pc = "ok" /\ Len(pb[Direct].input) > 0) =>
              /\ pb[Direct].upsert = "ok"
              /\ \A k \in 1..Len(FirstOccurrences(pb[Direct].input)) :
                    LET a == FirstOccurrences(pb[Direct].input)[k]
                    IN  store[a.id] = [a EXCEPT !.contentHash = ComputeHash(a)]

\* the second call of a two-article batch has returned nil after its upsert
C7_Witness ==
    /\ pb[Direct].repeat
    /\ pb[Direct].pc = "ok"
    /\ pb[Direct].upsert = "ok"
    /\ pb[Direct].skipped = 2

\* C10 as stated: after a successful processBatch every article of the batch
\* is stored with fetchedAt equal to the processing instant of the batch.
C10_FetchedAtIsProcessingInstant ==
    \A c \in Callers :
        (pb[c].pc = "ok" /\ pb[c].upsert = "ok") =>
            \A k \in 1..Len(batchArticles(c)) :
                store[batchArticles(c)[k].id].fetchedAt = pb[c].start


\* C5 as stated: under any interleaving of concurrent crawls, every published
\* event is for an article whose hash differs from the hash the store held
\* for its id immediately before the batch was persisted, or for an id the
\* store did not hold then.
C5_EventImpliesChange ==
    \A c \in Callers :
        \A k \in 1..Len(pb[c].changed) :
            pb[c].changed[k].id \in pb[c].published =>
                \/ pb[c].persist[pb[c].changed[k].id] = Absent
                \/ pb[c].persist[pb[c].changed[k].id].contentHash
                       # pb[c].changed[k].contentHash

\* C11 as stated: when a call stored an article's new content and published
\* no event for it (PublishBatch failed), the next call on which the upstream
\* returns the same content publishes the missing event.
C11_MissingEventReemitted ==
    pb[Direct].pc = "ok" => pb[Direct].owed \subseteq pb[Direct].published

\* C12: when PublishBatch returns an error processBatch returns nil, BulkUpsert
\* has succeeded and its articles are in the store, the call incremented the
\* publish-error counter once, and crawlLoop, on the handler's return, does
\* not count a handler error: it resets consecutiveErrors and goes on.
C12_PublishErrorIsNotBatchFailure ==
    /\ [](\A w \in Workers :
            pb[w].publish = "err" =>
                /\ pb[w].pc = "ok"
                /\ pb[w].upsert = "ok"
                /\ pb[w].publishErrors = 1
                /\ \A id \in batchIds(w) : store[id] # Absent)
    /\ [][\A w \in Workers :
            /\ (pb[w].pc = "publish" /\ pb'[w].publish = "err") => store' = store
            /\ (pb[w].publish = "err" /\ crawl'[w] # crawl[w]) =>
                  /\ crawl'[w].pc = "loop"
                  /\ crawl'[w].consecutiveErrors = 0
                  /\ crawl'[w].err = FALSE]_vars

\* a worker's processBatch has returned from a failed PublishBatch and its
\* crawlLoop is about to look at the handler's result
C12_Witness ==
    \E w \in Workers :
        /\ crawl[w].pc = "handler"
        /\ pb[w].publish = "err"
        /\ pb[w].publishErrors = 1
        /\ pb[w].published = {}

(***************************************************************************)
(* Properties of the content hash                                          *)
(***************************************************************************)
\* the direct caller's one-article batch was stored over a document of the
\* same id
Restored ==
    /\ pb[Direct].pc = "ok"
    /\ pb[Direct].upsert = "ok"
    /\ Len(pb[Direct].input) = 1
    /\ pb[Direct].before[pb[Direct].input[1].id] # Absent

\* C8: the content hash depends on source, url, title, summary and body only:
\* an article that agrees with the stored one on these five fields gets the
\* stored hash whatever its tags and image, so processing it publishes no
\* event and still upserts it.
C8_HashIgnoresOtherFields ==
    Restored =>
        LET a == pb[Direct].input[1]
            old == pb[Direct].before[a.id]
        IN  SameContent(a, old) =>
                /\ store[a.id].contentHash = old.contentHash
                /\ pb[Direct].publish = "none"
                /\ pb[Direct].published = {}
                /\ store[a.id].tags = a.tags
                /\ store[a.id].imageUrl = a.imageUrl

\* a stored article came back with only its tags changed and was processed
C8_Witness ==
    /\ Restored
    /\ SameContent(pb[Direct].input[1], pb[Direct].before["s_1"])
    /\ pb[Direct].input[1].tags # pb[Direct].before["s_1"].tags
    /\ pb[Direct].input[1].imageUrl = pb[Direct].before["s_1"].imageUrl
    /\ store["s_1"].tags = pb[Direct].input[1].tags

\* C9 as stated: an article that differs from the stored one in at least one
\* of source, url, title, summary, body never gets the stored fingerprint.
C9_ContentChangeChangesHash ==
    Restored =>
        LET a == pb[Direct].input[1]
            old == pb[Direct].before[a.id]
        IN  ~SameContent(a, old) => store[a.id].contentHash # old.contentHash


(***************************************************************************)
(* executeRequest and the circuit breaker                                  *)
(* (internal/infra/provider/generic_provider.go) and SpecFetch             *)
(***************************************************************************)
\* the provider whose Crawl the direct caller calls
DirectProvider == "feedA"

\* a ReadyToTrip that trips one failure early
ReadyToTripAtTwo(counts) == counts.consecutiveFailures >= cbTripThreshold - 1

\* cbSettings.ReadyToTrip
ReadyToTrip(counts) == counts.consecutiveFailures >= cbTripThreshold

\* the value OnStateChange sets circuit_breaker_state{name} to
stateVal(to) ==
    CASE to = "closed" -> 0
      [] to = "halfOpen" -> 1
      [] to = "open" -> 2

\* gobreaker, toNewGeneration: the counts are cleared and the expiry is set
\* anew (Interval in the closed state, Timeout in the open state, none in
\* the half-open state)
toNewGeneration(b) ==
    [b EXCEPT !.requests = 0, !.consecutiveSuccesses = 0,
              !.consecutiveFailures = 0, !.expired = FALSE]

\* gobreaker, setState: a new generation in the new state, and OnStateChange
setState(b, to) ==
    [toNewGeneration(b) EXCEPT !.state = to, !.gauge = <<stateVal(to)>>]

\* gobreaker, currentState: a closed breaker whose Interval (60 s) has passed
\* starts a new generation; an open breaker whose Timeout (30 s) has passed
\* becomes half-open
currentState(b) ==
    CASE b.state = "closed" /\ b.expired ->
             [toNewGeneration(b) EXCEPT !.rolled = (b.streak > 0)]
      [] b.state = "open" /\ b.expired -> setState(b, "halfOpen")
      [] OTHER -> b

\* a breaker that lets requests through while it is open
admitsWhenOpen(b) ==
    LET c == currentState(b)
    IN  c.state = "halfOpen" => c.requests < cbMaxRequests

\* gobreaker, beforeRequest admits the request: not open, and fewer than
\* MaxRequests requests in the half-open state
admits(b) ==
    LET c == currentState(b)
    IN  /\ c.state # "open"
        /\ c.state = "halfOpen" => c.requests < cbMaxRequests

\* gobreaker, beforeRequest: the breaker after the state check, the request
\* counted when it is admitted
beforeRequest(b) ==
    LET c == currentState(b)
    IN  IF admits(b) THEN [c EXCEPT !.requests = c.requests + 1] ELSE c

\* gobreaker, onSuccess
onSuccess(c) ==
    LET n == [c EXCEPT !.consecutiveSuccesses = c.consecutiveSuccesses + 1,
                       !.consecutiveFailures = 0]
    IN  IF c.state = "halfOpen" /\ n.consecutiveSuccesses >= cbMaxRequests
        THEN setState(n, "closed")
        ELSE n

\* a breaker that counts a failure twice
onFailureCountsTwice(c) ==
    LET n == [c EXCEPT !.consecutiveFailures = c.consecutiveFailures + 2,
                       !.consecutiveSuccesses = 0]
    IN  CASE c.state = "closed" /\ ReadyToTrip(n) -> setState(n, "open")
          [] c.state = "halfOpen" -> setState(n, "open")
          [] OTHER -> n

\* gobreaker, onFailure
onFailure(c) ==
    LET n == [c EXCEPT !.consecutiveFailures = c.consecutiveFailures + 1,
                       !.consecutiveSuccesses = 0]
    IN  CASE c.state = "closed" /\ ReadyToTrip(n) -> setState(n, "open")
          [] c.state = "halfOpen" -> setState(n, "open")
          [] OTHER -> n

\* gobreaker, afterRequest: the result of the wrapped function is counted
\* unless the generation changed since beforeRequest.  streak, rolled and
\* trippedAt are kept for the properties.
afterRequest(b, success) ==
    LET c == currentState(b)
        streak == IF success THEN 0
                  ELSE IF b.streak < cbTripThreshold THEN b.streak + 1 ELSE b.streak
        h == [c EXCEPT !.streak = streak,
                       !.rolled = IF success THEN FALSE ELSE (c.rolled \/ c # b)]
        n == IF c # b THEN h ELSE IF success THEN onSuccess(h) ELSE onFailure(h)
    IN  IF b.state = "closed" /\ n.state = "open"
        THEN [n EXCEPT !.trippedAt = streak] ELSE n

\* crawlLoop calls fetchSinglePage, which calls executeRequest: p.cb.Execute
\* runs beforeRequest.  An open breaker rejects the call, executeRequest
\* returns "circuit breaker execute failed" and the crawl stops with the
\* error; otherwise the wrapped function starts its loop at i = 0.
FetchBegin(c) ==
    /\ crawl[c].pc = "loop"
    /\ ~CrawlLoopEnds(c)
    /\ cb' = [cb EXCEPT ![DirectProvider] = beforeRequest(cb[DirectProvider])]
    /\ IF admits(cb[DirectProvider])
       THEN /\ req' = [req EXCEPT ![c] = [ReqIdle EXCEPT !.pc = "attempt"]]
            /\ crawl' = [crawl EXCEPT ![c].pc = "fetch"]
       ELSE /\ req' = [req EXCEPT ![c] = [ReqIdle EXCEPT !.result = "rejected",
                                                         !.how = "open"]]
            /\ crawl' = [crawl EXCEPT ![c] = afterFetch(crawl[c], "err", <<>>)]
    /\ UNCHANGED <<schedVars, sync, pb, store, clock, closed, entries,
                 WorkerActiveCount, sampler>>

\* the wrapped function has returned: afterRequest counts its result and
\* executeRequest returns to fetchSinglePage
executeReturn(r, success, how) ==
    [r EXCEPT !.pc = "done", !.result = IF success THEN "ok" ELSE "fail", !.how = how]

\* http.NewRequestWithContext fails: "failed to create request"
ReqBuildErr(c) ==
    /\ req[c].pc = "attempt"
    /\ req[c].i = 0
    /\ req' = [req EXCEPT ![c] = executeReturn(req[c], FALSE, "build")]
    /\ cb' = [cb EXCEPT ![DirectProvider] =
                  [afterRequest(cb[DirectProvider], FALSE) EXCEPT !.only5xx = FALSE]]
    /\ UNCHANGED <<schedVars, sync, crawl, pb, store, clock, closed, entries,
                 WorkerActiveCount, sampler>>

\* the outcomes of p.client.Do(req): a network error (the only one a
\* cancelled ctx leaves), a status >= 500, another status that is not 200,
\* or 200
DoOutcomes == IF ctxDone THEN {"neterr"} ELSE {"neterr", "s5xx", "s4xx", "s200"}

\* a loop that also retries after a client error
retryableWith4xx(outcome) == outcome \in {"neterr", "s5xx", "s4xx"}

\* the outcomes after which the loop says continue: "Retry on network
\* error", "Retry on 5xx"
retryable(outcome) == outcome \in {"neterr", "s5xx"}

\* one iteration of the loop from "Actual HTTP Request" on: client.Do, then
\* continue (to the backoff of the next iteration, or out of the loop to "max
\* retries exceeded"), or return the status error, or return the body
ReqDo(c) ==
    /\ req[c].pc = "attempt"
    /\ \E outcome \in DoOutcomes :
          LET r == [req[c] EXCEPT !.attempts = req[c].attempts + 1, !.last = outcome]
              b == [cb[DirectProvider] EXCEPT
                       !.only5xx = cb[DirectProvider].only5xx /\ outcome = "s5xx"]
          IN  IF retryable(outcome)
              THEN IF r.i + 1 <= maxRetries
                   THEN /\ req' = [req EXCEPT ![c] = [r EXCEPT !.pc = "backoff",
                                                               !.i = r.i + 1]]
                        /\ cb' = [cb EXCEPT ![DirectProvider] = b]
                   ELSE /\ req' = [req EXCEPT ![c] = executeReturn(r, FALSE, "retries")]
                        /\ cb' = [cb EXCEPT ![DirectProvider] = afterRequest(b, FALSE)]
              ELSE IF outcome = "s200"
                   THEN /\ req' = [req EXCEPT ![c] = executeReturn(r, TRUE, "body")]
                        /\ cb' = [cb EXCEPT ![DirectProvider] = afterRequest(b, TRUE)]
                   ELSE /\ req' = [req EXCEPT ![c] = executeReturn(r, FALSE, "status")]
                        /\ cb' = [cb EXCEPT ![DirectProvider] = afterRequest(b, FALSE)]
    /\ UNCHANGED <<schedVars, sync, crawl, pb, store, clock, closed, entries,
                 WorkerActiveCount, sampler>>

\* the select of an iteration with i > 0: ctx.Done() returns ctx.Err(),
\* time.After(backoff) lets the iteration go on
ReqBackoff(c) ==
    /\ req[c].pc = "backoff"
    /\ IF ctxDone
       THEN /\ req' = [req EXCEPT ![c] =
                          [executeReturn(req[c], FALSE, "ctx") EXCEPT !.cancelSeen = TRUE]]
            /\ cb' = [cb EXCEPT ![DirectProvider] = afterRequest(cb[DirectProvider], FALSE)]
       ELSE /\ req' = [req EXCEPT ![c].pc = "attempt"]
            /\ cb' = cb
    /\ UNCHANGED <<schedVars, sync, crawl, pb, store, clock, closed, entries,
                 WorkerActiveCount, sampler>>

\* executeRequest returned to fetchSinglePage: its error is returned to
\* crawlLoop; a body goes to transformer.Transform, which fails, or returns
\* no article, or returns a page (the upstream has MaxPages of them)
FetchReturn(c) ==
    /\ crawl[c].pc = "fetch"
    /\ req[c].pc = "done"
    /\ \/ /\ req[c].result = "fail"
          /\ crawl' = [crawl EXCEPT ![c] = afterFetch(crawl[c], "err", <<>>)]
       \/ /\ req[c].result = "ok"
          /\ \/ crawl' = [crawl EXCEPT ![c] = afterFetch(crawl[c], "err", <<>>)]
             \/ crawl' = [crawl EXCEPT ![c] = afterFetch(crawl[c], "empty", <<>>)]
             \/ /\ crawl[c].page < MaxPages
                /\ \E pageInfo \in {<<>>, <<MaxPages>>} :
                      crawl' = [crawl EXCEPT ![c] = afterFetch(crawl[c], "page", pageInfo)]
    /\ req' = [req EXCEPT ![c].pc = "idle"]
    /\ UNCHANGED <<schedVars, sync, cb, pb, store, clock, closed, entries,
                 WorkerActiveCount, sampler>>

\* provider.Crawl(ctx, handler) by the direct caller after a crawl returned:
\* the next tick's crawl of the same provider
DirectCrawlAgain ==
    /\ crawl[Direct].pc = "done"
    /\ crawl[Direct].calls + 1 < MaxCrawls
    /\ crawl' = [crawl EXCEPT ![Direct] =
                    [CrawlEntered EXCEPT
                        !.calls = crawl[Direct].calls + 1,
                        !.prevFailed = IF crawl[Direct].err
                                       THEN crawl[Direct].prevFailed + 1 ELSE 0]]
    /\ UNCHANGED <<schedVars, netVars, pb, store, clock>>

\* time passes: the Interval of the closed breaker, or the Timeout of the
\* open breaker, has gone by
CbExpiry ==
    /\ cb[DirectProvider].state \in {"closed", "open"}
    /\ ~cb[DirectProvider].expired
    /\ cb' = [cb EXCEPT ![DirectProvider].expired = TRUE]
    /\ UNCHANGED <<schedVars, req, sync, crawl, pb, store, clock, closed, entries,
                 WorkerActiveCount, sampler>>

NextFetch ==
    \/ Cancel
    \/ CbExpiry
    \/ DirectCrawl
    \/ DirectCrawlAgain
    \/ CrawlStop(Direct)
    \/ FetchBegin(Direct)
    \/ ReqBuildErr(Direct)
    \/ ReqDo(Direct)
    \/ ReqBackoff(Direct)
    \/ FetchReturn(Direct)
    \/ LoopHandlerReturn

SpecFetch == Init /\ [][NextFetch]_vars

(***************************************************************************)
(* KafkaConsumer.Start (internal/infra/queue), CMSSyncService.handleEvent  *)
(* (internal/app/sync_service.go) and SpecSync                             *)
(***************************************************************************)
\* the value of a message of the main topic: the JSON of an article, or bytes
\* json.Unmarshal rejects
Messages == BatchArticles \cup {Absent}

\* a consumer that hands a payload it could not decode to the handler
afterReadHandlesMalformed(s, m) ==
    [s EXCEPT !.consumed = s.consumed + 1,
              !.committed = s.consumed + 1,
              !.article = m,
              !.wellFormed = (m # Absent),
              !.skipped = IF m # Absent THEN s.skipped ELSE s.skipped + 1,
              !.cmsCalls = 0, !.cmsResult = "none",
              !.dlqAttempts = 0, !.dlqResult = "none",
              !.dlqArticle = Absent,
              !.pc = "handle"]

\* the consumer after c.reader.ReadMessage returned message m and
\* json.Unmarshal ran.  The reader was built with a GroupID, and ReadMessage
\* of a reader in a consumer group commits the offset of the message it
\* returns before it returns it.  A payload json.Unmarshal rejects makes the
\* loop continue with the next ReadMessage.
afterRead(s, m) ==
    [s EXCEPT !.consumed = s.consumed + 1,
              !.committed = s.consumed + 1,
              !.article = m,
              !.wellFormed = (m # Absent),
              !.skipped = IF m # Absent THEN s.skipped ELSE s.skipped + 1,
              !.cmsCalls = 0, !.cmsResult = "none",
              !.dlqAttempts = 0, !.dlqResult = "none",
              !.dlqArticle = Absent,
              !.pc = IF m # Absent THEN "handle" ELSE "read"]

\* c.reader.ReadMessage returns a message and json.Unmarshal decodes it, or
\* fails and the loop continues with the next message
SyncRead ==
    /\ sync.pc = "read"
    /\ sync.consumed < MaxMsgs
    /\ \E m \in Messages : sync' = afterRead(sync, m)
    /\ UNCHANGED <<schedVars, cb, req, crawl, pb, store, clock, closed, entries,
                 WorkerActiveCount, sampler>>

\* a consumer that reads on after an error of ReadMessage
SyncReadErrContinues ==
    /\ sync.pc = "read"
    /\ sync.readErrors = 0
    /\ sync' = [sync EXCEPT !.readErrors = sync.readErrors + 1]
    /\ UNCHANGED <<schedVars, cb, req, crawl, pb, store, clock, closed, entries,
                   WorkerActiveCount, sampler>>

\* c.reader.ReadMessage returns an error (ctx cancelled, reader closed, or
\* another read error): break, and Start returns.  CMSSyncService.Start
\* spawned it once and nothing spawns it again.
SyncReadErr ==
    /\ sync.pc = "read"
    /\ sync' = [sync EXCEPT !.pc = "stopped", !.readErrors = sync.readErrors + 1]
    /\ UNCHANGED <<schedVars, cb, req, crawl, pb, store, clock, closed, entries,
                 WorkerActiveCount, sampler>>

\* handleEvent: one cmsGateway.SyncArticle call; its error is counted in
\* cms_sync_errors_total and returned
handleEvent(s, cmsErr) ==
    [s EXCEPT !.cmsCalls = s.cmsCalls + 1,
              !.cmsResult = IF cmsErr THEN "err" ELSE "ok",
              !.cmsSyncErrors = IF cmsErr THEN s.cmsSyncErrors + 1 ELSE s.cmsSyncErrors]

\* handler(ctx, &article) in Start: on an error the consumer, whose
\* dlqProducer the factory always sets, goes on to publish to the DLQ
SyncHandle ==
    /\ sync.pc = "handle"
    /\ \E cmsErr \in BOOLEAN :
          sync' = [handleEvent(sync, cmsErr) EXCEPT
                      !.pc = IF cmsErr THEN "dlq" ELSE "read"]
    /\ UNCHANGED <<schedVars, cb, req, crawl, pb, store, clock, closed, entries,
                 WorkerActiveCount, sampler>>

\* a consumer that counts every DLQ publish attempt
dlqPublishCountsAttempts(s, dlqErr, written) ==
    [s EXCEPT !.dlqAttempts = s.dlqAttempts + 1,
              !.dlqArticle = s.article,
              !.dlqResult = IF dlqErr THEN "err" ELSE "ok",
              !.dlqTopic = IF written THEN Append(s.dlqTopic, s.article) ELSE s.dlqTopic,
              !.dlqMessagesPublished = s.dlqMessagesPublished + 1]

\* c.dlqProducer.Publish(ctx, &article) and what follows it: the metric is
\* incremented when Publish returned no error
dlqPublish(s, dlqErr, written) ==
    [s EXCEPT !.dlqAttempts = s.dlqAttempts + 1,
              !.dlqArticle = s.article,
              !.dlqResult = IF dlqErr THEN "err" ELSE "ok",
              !.dlqTopic = IF written THEN Append(s.dlqTopic, s.article) ELSE s.dlqTopic,
              !.dlqMessagesPublished = IF dlqErr THEN s.dlqMessagesPublished
                                       ELSE s.dlqMessagesPublished + 1]

\* the DLQ branch of Start; a Publish that returns an error may or may not
\* have written the message
SyncDlq ==
    /\ sync.pc = "dlq"
    /\ \E dlqErr \in BOOLEAN, written \in BOOLEAN :
          /\ ~dlqErr => written
          /\ sync' = [dlqPublish(sync, dlqErr, written) EXCEPT !.pc = "read"]
    /\ UNCHANGED <<schedVars, cb, req, crawl, pb, store, clock, closed, entries,
                 WorkerActiveCount, sampler>>

NextSync ==
    \/ SyncRead
    \/ SyncReadErr
    \/ SyncHandle
    \/ SyncDlq

SpecSync == Init /\ [][NextSync]_vars

(***************************************************************************)
(* ErrorSampler (pkg/logging) and SpecSampler                              *)
(***************************************************************************)
\* NewErrorSampler: "interval = 10 // Default to every 10th"
defaultInterval == 10

\* most ShouldLog calls made for one key between two resets of it
MaxOccurrences == 10

\* the interval arguments NewErrorSampler is called with
SamplerIntervals == {0, 3, defaultInterval}

\* NewErrorSampler(interval): an interval below 1 becomes the default, the
\* map of counts is empty
NewErrorSampler(interval) ==
    [NoSampler EXCEPT !.interval = IF interval < 1 THEN defaultInterval ELSE interval]

\* a sampler that logs the occurrences 1, N+1, 2N+1, ...
shouldLogAfterEveryNth(count, interval) == count = 1 \/ count % interval = 1

\* ShouldLog's result: "count == 1 || count%s.interval == 0"
shouldLog(count, interval) == count = 1 \/ count % interval = 0

\* ErrorSampler.GetCount
GetCount(errorKey) == sampler.counts[errorKey]

\* a test constructs a sampler
SamplerNew ==
    /\ \E interval \in SamplerIntervals : sampler' = NewErrorSampler(interval)
    /\ UNCHANGED <<schedVars, cb, req, sync, crawl, pb, store, clock, closed, entries,
                   WorkerActiveCount>>

\* ErrorSampler.ShouldLog(errorKey): s.counts[errorKey]++, then the result
SamplerShouldLog ==
    /\ sampler.interval > 0
    /\ \E errorKey \in SamplerKeys :
          /\ sampler.counts[errorKey] < MaxOccurrences
          /\ LET count == sampler.counts[errorKey] + 1
             IN  sampler' = [sampler EXCEPT
                                !.counts[errorKey] = count,
                                !.calls[errorKey] = sampler.calls[errorKey] + 1,
                                !.last = [op |-> "ShouldLog", key |-> errorKey,
                                          count |-> count,
                                          result |-> shouldLog(count, sampler.interval)]]
    /\ UNCHANGED <<schedVars, cb, req, sync, crawl, pb, store, clock, closed, entries,
                   WorkerActiveCount>>

\* ErrorSampler.Reset(errorKey): delete(s.counts, errorKey)
SamplerReset ==
    /\ sampler.interval > 0
    /\ \E errorKey \in SamplerKeys :
          sampler' = [sampler EXCEPT
                         !.counts[errorKey] = 0,
                         !.calls[errorKey] = 0,
                         !.last = [op |-> "Reset", key |-> errorKey,
                                   count |-> 0, result |-> FALSE]]
    /\ UNCHANGED <<schedVars, cb, req, sync, crawl, pb, store, clock, closed, entries,
                   WorkerActiveCount>>

\* ErrorSampler.ResetAll: s.counts = make(map[string]int)
SamplerResetAll ==
    /\ sampler.interval > 0
    /\ sampler' = [sampler EXCEPT
                      !.counts = [k \in SamplerKeys |-> 0],
                      !.calls = [k \in SamplerKeys |-> 0],
                      !.last = [op |-> "ResetAll", key |-> "none",
                                count |-> 0, result |-> FALSE]]
    /\ UNCHANGED <<schedVars, cb, req, sync, crawl, pb, store, clock, closed, entries,
                   WorkerActiveCount>>

NextSampler ==
    \/ SamplerNew
    \/ SamplerShouldLog
    \/ SamplerReset
    \/ SamplerResetAll

SpecSampler == Init /\ [][NextSampler]_vars

(***************************************************************************)
(* Properties of crawlLoop                                                 *)
(***************************************************************************)
\* the direct caller's handler has just returned to crawlLoop
HandlerReturned ==
    crawl[Direct].pc = "handler" /\ crawl'[Direct].pc # "handler"

\* the direct caller's crawl ended on one of the loop's own conditions: the
\* total number of pages is known and reached, or the safety cap
EndedByLoopCondition ==
    \/ crawl[Direct].numPages # -1 /\ crawl[Direct].page >= crawl[Direct].numPages
    \/ crawl[Direct].page >= maxSafetyPages

\* C13: consecutiveErrors is incremented by every handler error and reset to 0
\* by every handler success; crawlLoop returns the handler-error abort exactly
\* when the counter reaches 5; a handler that always fails is called exactly
\* 5 times in a crawl and no sixth page is fetched.
C13_AbortAtFiveConsecutiveErrors ==
    /\ [](/\ crawl[Direct].consecutiveErrors <= 5
          /\ crawl[Direct].abort = "handler" <=> crawl[Direct].consecutiveErrors = 5
          /\ crawl[Direct].abort = "handler" =>
                (crawl[Direct].pc = "done" /\ crawl[Direct].err)
          /\ crawl[Direct].allFailed =>
                (crawl[Direct].handled <= 5 /\ crawl[Direct].fetches <= 5)
          /\ (crawl[Direct].allFailed /\ crawl[Direct].pc = "done"
                  /\ crawl[Direct].abort = "handler") =>
                (crawl[Direct].handled = 5 /\ crawl[Direct].fetches = 5))
    /\ [][HandlerReturned =>
            crawl'[Direct].consecutiveErrors =
                IF crawl'[Direct].lastHandler = "err"
                THEN crawl[Direct].consecutiveErrors + 1 ELSE 0]_vars

\* a handler that failed on every page has been called five times and the
\* crawl has aborted
C13_Witness ==
    /\ crawl[Direct].pc = "done"
    /\ crawl[Direct].abort = "handler"
    /\ crawl[Direct].allFailed
    /\ crawl[Direct].handled = 5

\* C14: a handler error does not stop the crawl: while fewer than 5 errors are
\* consecutive the loop goes on to the next page, and the crawl then ends
\* only on the loop's own conditions, an empty page or a fetch error, and
\* returns nil unless the fetch failed.
C14_HandlerErrorTolerated ==
    /\ [][(HandlerReturned /\ crawl'[Direct].lastHandler = "err"
              /\ crawl[Direct].consecutiveErrors + 1 < 5) =>
            /\ crawl'[Direct].pc = "loop"
            /\ crawl'[Direct].page = crawl[Direct].page + 1
            /\ crawl'[Direct].err = FALSE]_vars
    /\ [](crawl[Direct].pc = "done" /\ crawl[Direct].consecutiveErrors < 5 =>
            /\ crawl[Direct].abort \in {"none", "fetch"}
            /\ crawl[Direct].err <=> crawl[Direct].abort = "fetch"
            /\ crawl[Direct].abort = "none" =>
                  (crawl[Direct].empty \/ EndedByLoopCondition))

\* a crawl of three pages has returned nil although the handler failed on
\* one of the first two
C14_Witness ==
    /\ crawl[Direct].pc = "done"
    /\ ~crawl[Direct].err
    /\ crawl[Direct].numPages = 3
    /\ crawl[Direct].fetches = 3
    /\ crawl[Direct].handled = 3
    /\ ~crawl[Direct].allOk
    /\ crawl[Direct].lastHandler = "ok"
    /\ crawl[Direct].consecutiveErrors = 0

\* C15: a crawl requests the pages 0, 1, 2, ... one at a time; page k is not
\* requested once numPages is known and k >= numPages; a page with zero
\* articles ends the crawl with nil and the handler is not called for it; a
\* crawl that returns nil ended on one of these conditions or the safety cap.
C15_PagesInOrderUntilEnd ==
    /\ [][crawl'[Direct].fetches # crawl[Direct].fetches =>
            /\ crawl'[Direct].fetches = crawl[Direct].fetches + 1
            /\ crawl'[Direct].requested = crawl[Direct].fetches
            /\ crawl[Direct].numPages # -1 =>
                  crawl'[Direct].requested < crawl[Direct].numPages]_vars
    /\ [](/\ crawl[Direct].empty =>
                /\ crawl[Direct].pc = "done"
                /\ ~crawl[Direct].err
                /\ crawl[Direct].handled = crawl[Direct].fetches - 1
          /\ (crawl[Direct].pc = "done" /\ ~crawl[Direct].err) =>
                (crawl[Direct].empty \/ EndedByLoopCondition))

\* a provider that reported numPages = 1 with page 0 was not asked for page 1
C15_Witness ==
    /\ crawl[Direct].pc = "done"
    /\ ~crawl[Direct].err
    /\ crawl[Direct].numPages = 1
    /\ crawl[Direct].requested = 0
    /\ crawl[Direct].handled = 1

\* C16: against an upstream that always returns articles and never reports
\* numPages, with a handler that always succeeds, the crawl requests exactly
\* the pages 0..999 and returns nil; no crawl requests page 1000.
C16_SafetyCap ==
    /\ crawl[Direct].fetches <= 1000
    /\ crawl[Direct].requested <= 999
    /\ (crawl[Direct].pc = "done" /\ crawl[Direct].numPages = -1
           /\ ~crawl[Direct].empty /\ crawl[Direct].abort = "none") =>
          /\ crawl[Direct].fetches = 1000
          /\ crawl[Direct].handled = 1000
          /\ crawl[Direct].requested = 999
          /\ ~crawl[Direct].err

\* the crawl of such an upstream has returned nil at the safety cap
C16_Witness ==
    /\ crawl[Direct].pc = "done"
    /\ crawl[Direct].numPages = -1
    /\ crawl[Direct].allOk
    /\ ~crawl[Direct].empty
    /\ crawl[Direct].abort = "none"
    /\ crawl[Direct].handled = 1000

(***************************************************************************)
(* Properties of the scheduling machine                                    *)
(***************************************************************************)
\* the workers inside processProvider for the provider name
Crawling(name) == {w \in Workers : wpc[w] = "crawl" /\ GetName(wjob[w]) = name}

\* worker w holds a job whose name is in the single-flight map
HoldsActiveJob(w) ==
    /\ wpc[w] = "loadOrStore"
    /\ GetName(wjob[w]) \in activeProviders

\* C1: at most one crawl is in flight for a provider name at any instant, and
\* a worker that dequeued a job whose name is already in the active-provider
\* map drops the job without crawling.
C1_SingleFlight ==
    /\ [](\A p \in Providers : Cardinality(Crawling(GetName(p))) <= 1)
    /\ [][\A w \in Workers :
            (HoldsActiveJob(w) /\ wpc'[w] # wpc[w]) =>
                /\ wpc'[w] = "recv"
                /\ crawl'[w] = crawl[w]
                /\ activeProviders' = activeProviders]_vars

\* one worker crawls a provider while another holds a job of the same name
C1_Witness ==
    \E w1, w2 \in Workers :
        /\ w1 # w2
        /\ wpc[w1] = "crawl"
        /\ HoldsActiveJob(w2)
        /\ GetName(wjob[w2]) = GetName(wjob[w1])

\* C2: on cancellation Start waits for every provider loop to exit, only then
\* closes the job queue, and only then waits for the workers; no provider
\* loop sends on, or waits to send on, a closed queue.
C2_ShutdownOrder ==
    /\ startPc # "waitCtx" => ctxDone
    /\ startPc \in {"closeJobs", "waitWorkers", "done"} =>
          \A p \in Providers : ppc[p] = "exited"
    /\ jobsClosed <=> startPc \in {"waitWorkers", "done"}
    /\ jobsClosed => \A p \in Providers : ppc[p] = "exited"
    /\ startPc = "done" => \A w \in Workers : wpc[w] = "exited"
    /\ \A p \in Providers : ppc[p] # "panic"

\* the provider loops have all exited with the queue full, and Start is about
\* to close it
C2_Witness ==
    /\ startPc = "closeJobs"
    /\ Len(jobs) = JobsCap

\* C3: shutdown drains the job queue: when Start returns every enqueued job
\* has been received by a worker, no worker exits while the queue is non-empty
\* or not yet closed, and a job leaves the queue only by a worker receiving it.
C3_ShutdownDrains ==
    /\ [](startPc = "done" => Len(jobs) = 0)
    /\ [](\A w \in Workers : wpc[w] = "exited" => (jobsClosed /\ Len(jobs) = 0))
    /\ [][jobs' # jobs =>
            \/ \E p \in Providers : jobs' = Append(jobs, p)
            \/ \E w \in Workers :
                  /\ wpc[w] = "recv"
                  /\ wpc'[w] = "loadOrStore"
                  /\ wjob'[w] = Head(jobs)
                  /\ jobs' = Tail(jobs)]_vars

\* the queue was closed while it was full and every worker is about to
\* receive from it
C3_Witness ==
    /\ jobsClosed
    /\ Len(jobs) = JobsCap
    /\ \A w \in Workers : wpc[w] = "recv"


(***************************************************************************)
(* Properties of executeRequest and the circuit breaker                    *)
(***************************************************************************)
\* C17: one executeRequest makes at most 1 + maxRetries = 4 HTTP attempts; an
\* attempt after the first is made only after a network error or a status
\* >= 500 and after a backoff during which ctx was not cancelled; a status
\* that is neither 200 nor >= 500, a ctx cancelled at the backoff and a
\* request that cannot be built end the request with an error at once.
C17_AtMostFourAttemptsRetryOn5xx ==
    /\ [](LET r == req[Direct]
          IN  /\ r.attempts <= maxRetries + 1
              /\ r.last = "s4xx" => r.pc \in {"done", "idle"} /\ r.result = "fail"
                                     /\ r.how = "status"
              /\ r.how = "build" => r.attempts = 0 /\ r.result = "fail"
              /\ r.how = "ctx" => r.result = "fail" /\ r.pc \in {"done", "idle"}
              /\ r.how = "retries" => r.attempts = maxRetries + 1 /\ r.result = "fail")
    /\ [][LET r == req[Direct]
              n == req'[Direct]
          IN  /\ (n.attempts = r.attempts + 1 /\ r.attempts > 0)
                     => r.last \in {"neterr", "s5xx"} /\ ~r.cancelSeen
              /\ (r.pc = "backoff" /\ ctxDone /\ n # r)
                     => n.pc = "done" /\ n.result = "fail" /\ n.attempts = r.attempts
              /\ (r.pc = "backoff" /\ n.pc = "attempt") => ~ctxDone
              /\ (r.pc \in {"done", "idle"} /\ n.attempts # r.attempts) => n.attempts = 0]_vars

\* a request gave up after four attempts
C17_Witness ==
    /\ req[Direct].how = "retries"
    /\ req[Direct].attempts = maxRetries + 1
    /\ req[Direct].last = "s5xx"

C19_AlwaysFailingProviderOpensCircuit ==
    LET d == crawl[Direct]
        r == req[Direct]
        b == cb[DirectProvider]
    IN  (b.only5xx /\ ~ctxDone /\ d.pc = "done")
           => /\ d.err /\ d.fetches = 1 /\ d.requested = 0
              /\ r.result = "fail" => r.attempts = maxRetries + 1
              /\ r.result = "rejected" => r.attempts = 0 /\ b.state = "open"
              /\ d.prevFailed >= cbTripThreshold - 1
                    => b.state = "open" /\ b.gauge = <<stateVal("open")>>

(***************************************************************************)
(* Properties of the consumer                                              *)
(***************************************************************************)
\* C20: for a well-formed message the CMS gateway is called exactly once; the
\* message's article goes to one DLQ publish attempt if that call returned
\* an error and to none if it succeeded; dlq_messages_published_total grows,
\* by one, only in a step in which the DLQ publish succeeded.
C20_DlqIffCmsError ==
    /\ [](/\ sync.cmsCalls <= 1
          /\ sync.dlqAttempts <= 1
          /\ sync.cmsResult = "ok" => sync.dlqAttempts = 0
          /\ sync.dlqAttempts = 1 => sync.cmsResult = "err" /\ sync.dlqArticle = sync.article
          /\ ~sync.wellFormed => sync.cmsCalls = 0 /\ sync.dlqAttempts = 0
          /\ (sync.wellFormed /\ sync.pc \in {"read", "stopped"})
                => /\ sync.cmsCalls = 1
                   /\ sync.dlqAttempts = 1 <=> sync.cmsResult = "err")
    /\ [][/\ sync'.dlqMessagesPublished # sync.dlqMessagesPublished
                => /\ sync'.dlqMessagesPublished = sync.dlqMessagesPublished + 1
                   /\ sync.pc = "dlq"
                   /\ sync'.dlqResult = "ok"
          /\ (sync.pc = "dlq" /\ sync'.dlqResult = "ok")
                => sync'.dlqMessagesPublished = sync.dlqMessagesPublished + 1]_vars

\* a failed sync whose DLQ publish failed, after one whose DLQ publish
\* succeeded
C20_Witness ==
    /\ sync.pc = "read"
    /\ sync.wellFormed
    /\ sync.cmsCalls = 1
    /\ sync.cmsResult = "err"
    /\ sync.dlqAttempts = 1
    /\ sync.dlqResult = "err"
    /\ sync.dlqMessagesPublished = 1

\* C21: a message whose CMS call failed and whose DLQ publish failed too has
\* not had its offset committed (its offset is consumed - 1), so the consumer
\* group delivers it again.
C21_OffsetHeldWhenDlqFails ==
    (sync.wellFormed /\ sync.cmsResult = "err" /\ sync.dlqResult = "err")
       => sync.committed <= sync.consumed - 1

\* C22: a message whose payload cannot be decoded is skipped: no CMS call and
\* no DLQ publish is made for it, its offset is committed, the DLQ topic and
\* the counters stay as they were, and the consumer is at its next
\* ReadMessage.
C22_MalformedSkipped ==
    /\ []((~sync.wellFormed /\ sync.consumed > 0)
            => /\ sync.pc \in {"read", "stopped"}
               /\ sync.cmsCalls = 0
               /\ sync.dlqAttempts = 0
               /\ sync.committed = sync.consumed)
    /\ [][(sync'.skipped # sync.skipped)
            => /\ sync'.skipped = sync.skipped + 1
               /\ sync'.pc = "read"
               /\ sync'.consumed = sync.consumed + 1
               /\ sync'.dlqTopic = sync.dlqTopic
               /\ sync'.dlqMessagesPublished = sync.dlqMessagesPublished
               /\ sync'.cmsSyncErrors = sync.cmsSyncErrors]_vars

\* a message was synced after a malformed one had been skipped
C22_Witness ==
    /\ sync.skipped >= 1
    /\ sync.wellFormed
    /\ sync.cmsCalls = 1
    /\ sync.cmsResult = "ok"
    /\ sync.pc = "read"

(***************************************************************************)
(* Properties of the shutdown flow                                         *)
(***************************************************************************)
\* C23: a producer, the consumer or the store is closed only after
\* cancellation was signalled, every provider loop has exited, the queue was
\* closed, every worker has exited and Start has returned; so no worker is
\* in a crawl, which calls the store and the producer, once one is closed.
C23_CloseAfterStartReturned ==
    closed # {}
       => /\ ctxDone
          /\ \A p \in Providers : ppc[p] = "exited"
          /\ jobsClosed
          /\ \A w \in Workers : wpc[w] = "exited"
          /\ startPc = "done"

\* C24: once ctx is cancelled no provider loop places a job on the queue.
C24_NoEnqueueAfterCancel ==
    [][ctxDone => ~(\E p \in Providers : jobs' = Append(jobs, p))]_vars

\* C25: the queue never holds more than 2 x workerCount jobs; a provider loop
\* at an enqueue that finds the queue full stays there, the queue as it is,
\* unless cancellation makes it exit; a loop that gets past an enqueue has
\* appended its job; and a job leaves the queue only from its head, by a
\* worker's receive.
C25_BoundedBlockingQueue ==
    /\ [](Len(jobs) <= JobsCap)
    /\ [][\A p \in Providers :
            /\ (ppc[p] \in {"initial", "send"} /\ Len(jobs) = JobsCap
                   /\ ppc'[p] # ppc[p])
                  => ctxDone /\ ppc'[p] = "exited" /\ jobs' = jobs
            /\ (ppc[p] \in {"initial", "send"} /\ ppc'[p] = "tick")
                  => jobs' = Append(jobs, p)]_vars
    /\ [][jobs' # jobs =>
            \/ \E p \in Providers : jobs' = Append(jobs, p)
            \/ /\ jobs' = Tail(jobs)
               /\ \E w \in Workers : wpc[w] = "recv" /\ wjob'[w] = Head(jobs)]_vars

\* a provider loop waits at its enqueue on a full queue, before cancellation
C25_Witness ==
    /\ ~ctxDone
    /\ Len(jobs) = JobsCap
    /\ \E p \in Providers : ppc[p] = "send"

\* C26: a name is in the single-flight map exactly while a worker is inside
\* processProvider for it; the entry is gone when the crawl has returned,
\* with an error or without; and a worker that holds a job of a provider no
\* worker is crawling crawls it.
C26_EntryWhileCrawlInFlight ==
    /\ [](activeProviders =
             {GetName(wjob[w]) : w \in {v \in Workers : wpc[v] = "crawl"}})
    /\ [][\A w \in Workers :
            /\ (wpc[w] = "crawl" /\ wpc'[w] # "crawl")
                  => /\ GetName(wjob[w]) \notin activeProviders'
                     /\ crawl'[w].returned \in {"ok", "err"}
            /\ (wpc[w] = "loadOrStore" /\ Crawling(GetName(wjob[w])) = {}
                   /\ wpc'[w] # wpc[w])
                  => wpc'[w] = "crawl" /\ GetName(wjob[w]) \in activeProviders']_vars

\* a worker crawls the provider whose crawl by another worker has returned
\* an error
C26_Witness ==
    \E w1, w2 \in Workers :
        /\ w1 # w2
        /\ wpc[w1] = "recv"
        /\ crawl[w1].returned = "err"
        /\ wpc[w2] = "crawl"
        /\ activeProviders = {GetName(wjob[w2])}

(***************************************************************************)
(* Properties of the transformers                                          *)
(***************************************************************************)
\* C27: two entries of different configured sources, or of one source with
\* different upstream ids, never get the same article id; an entry gets the
\* same id on every fetch; the id is "<source>_<externalId>" with source the
\* Source of the article.
C27_IdsInjectiveAndStable ==
    /\ \A r1, r2 \in entries :
          (r1.provider # r2.provider \/ r1.entry # r2.entry)
             => r1.article.id # r2.article.id
    /\ \A r1, r2 \in entries :
          (r1.provider = r2.provider /\ r1.entry = r2.entry)
             => r1.article.id = r2.article.id
    /\ \A r \in entries :
          r.article.id = r.article.source \o <<"_">> \o r.article.externalId

\* C28: once ctx is cancelled Start returns in the end, every provider loop
\* and every worker having exited, the crawls in flight being finite; and
\* until it has returned some step can always be taken.
C28_StartReturnsAfterCancel ==
    /\ ctxDone ~> (/\ startPc = "done"
                   /\ \A p \in Providers : ppc[p] = "exited"
                   /\ \A w \in Workers : wpc[w] = "exited")
    /\ [](startPc = "done" \/ ENABLED Next)

\* Start has returned after a cancellation, the queue drained and every
\* worker gone
C28_Witness ==
    /\ ctxDone
    /\ startPc = "done"
    /\ Len(jobs) = 0
    /\ \A w \in Workers : wpc[w] = "exited"

(***************************************************************************)
(* Properties of the page order                                            *)
(***************************************************************************)
\* C29: a processBatch call runs only while its crawlLoop waits in the
\* handler call, which is for the page the loop is at; the handler calls of
\* a crawl are for pages 0, 1, 2, ... in this order, each entered only after
\* the one before has returned; and no two workers are in processBatch for
\* the same provider at once.
C29_PageOrderWithinProvider ==
    /\ [](\A w \in Workers :
            /\ pb[w].pc # "idle" => crawl[w].pc = "handler"
            /\ crawl[w].pc = "handler" => crawl[w].page = crawl[w].handled - 1)
    /\ [](\A w1, w2 \in Workers :
            (w1 # w2 /\ pb[w1].pc # "idle" /\ pb[w2].pc # "idle")
               => GetName(wjob[w1]) # GetName(wjob[w2]))
    /\ [][\A w \in Workers :
            crawl'[w].handled = crawl[w].handled + 1
               => /\ crawl[w].pc = "loop"
                  /\ pb[w].pc = "idle"
                  /\ crawl[w].page = crawl[w].handled
                  /\ crawl'[w].page = crawl[w].page]_vars

\* a worker is in the handler call of its crawl's second page while another
\* worker holds a job of the same provider
C29_Witness ==
    \E w1, w2 \in Workers :
        /\ w1 # w2
        /\ crawl[w1].pc = "handler"
        /\ crawl[w1].page = 1
        /\ pb[w1].pc \notin {"idle", "ok", "err"}
        /\ HoldsActiveJob(w2)
        /\ GetName(wjob[w2]) = GetName(wjob[w1])

(***************************************************************************)
(* Properties of the dedup within a batch                                  *)
(***************************************************************************)
\* C30: processBatch goes on with the first article of every id of its
\* input, in the order of the input; only these are hashed and classified,
\* after the upsert the stored document of every id is its first copy, and
\* only their ids are published.
C30_DedupEarliestWins ==
    LET c == pb[Direct]
        first == FirstOccurrences(c.input)
    IN  c.pc # "idle" =>
           /\ uniqueArticles(c.input) = first
           /\ \A k \in 1..Len(c.changed) :
                 \E j \in 1..Len(first) :
                    c.changed[k] = [first[j] EXCEPT !.contentHash = ComputeHash(first[j])]
           /\ c.upsert = "ok" =>
                 \A j \in 1..Len(first) :
                    /\ store[first[j].id] # Absent
                    /\ SameContent(store[first[j].id], first[j])
                    /\ store[first[j].id].tags = first[j].tags
           /\ c.published \subseteq {first[j].id : j \in 1..Len(first)}

\* a batch of two copies of one id with different bodies was processed, and
\* the first was stored and published
C30_Witness ==
    LET c == pb[Direct]
    IN  /\ c.pc = "ok"
        /\ c.upsert = "ok"
        /\ Len(c.input) = 2
        /\ c.input[1].id = c.input[2].id
        /\ ~SameContent(c.input[1], c.input[2])
        /\ SameContent(store[c.input[1].id], c.input[1])
        /\ c.published = {c.input[1].id}

(***************************************************************************)
(* Properties of the breaker as crawlLoop sees it                          *)
(***************************************************************************)
\* C31: a page fetch that begins while the breaker is open (its cool-down
\* not over) fails fast: executeRequest returns an error without an HTTP
\* attempt, and crawlLoop returns that error without calling the handler.
C31_OpenBreakerFailsFast ==
    /\ [](req[Direct].result = "rejected" => req[Direct].attempts = 0)
    /\ [][(/\ crawl[Direct].pc = "loop"
            /\ ~CrawlLoopEnds(Direct)
            /\ currentState(cb[DirectProvider]).state = "open"
            /\ crawl'[Direct] # crawl[Direct])
              => /\ req'[Direct].pc = "idle"
                 /\ req'[Direct].result = "rejected"
                 /\ req'[Direct].attempts = 0
                 /\ crawl'[Direct].pc = "done"
                 /\ crawl'[Direct].err
                 /\ crawl'[Direct].abort = "fetch"
                 /\ crawl'[Direct].handled = crawl[Direct].handled
                 /\ cb'[DirectProvider].state = "open"]_vars

\* the open breaker rejected the first page fetch of a crawl, which ended
\* with the error before any handler call
C31_Witness ==
    /\ cb[DirectProvider].state = "open"
    /\ req[Direct].result = "rejected"
    /\ req[Direct].attempts = 0
    /\ crawl[Direct].pc = "done"
    /\ crawl[Direct].err
    /\ crawl[Direct].fetches = 1
    /\ crawl[Direct].handled = 0

(***************************************************************************)
(* Properties of the workers' gauge                                        *)
(***************************************************************************)
\* the workers that are inside processProvider
InProcessProvider == {w \in Workers : wpc[w] = "crawl"}

\* C32: the active-workers gauge equals the number of workers inside
\* processProvider; it changes only by +1 when a worker enters a crawl and by
\* -1 when that crawl returns; a job skipped by the single-flight guard
\* leaves it alone; it stays within 0..workerCount and it is 0 when every
\* worker is idle or has exited.
C32_GaugeCountsCrawlingWorkers ==
    /\ [](/\ WorkerActiveCount = Cardinality(InProcessProvider)
          /\ WorkerActiveCount \in 0..NumWorkers
          /\ (\A w \in Workers : wpc[w] \in {"recv", "exited"}) => WorkerActiveCount = 0)
    /\ [][/\ \A w \in Workers :
                (wpc[w] = "loadOrStore" /\ wpc'[w] = "recv")
                   => WorkerActiveCount' = WorkerActiveCount
          /\ WorkerActiveCount' # WorkerActiveCount
                => \E w \in Workers :
                      \/ /\ wpc[w] = "loadOrStore" /\ wpc'[w] = "crawl"
                         /\ WorkerActiveCount' = WorkerActiveCount + 1
                      \/ /\ wpc[w] = "crawl" /\ wpc'[w] = "recv"
                         /\ WorkerActiveCount' = WorkerActiveCount - 1]_vars

\* one worker is crawling a source and the other is about to skip a job of
\* the same source
C32_Witness ==
    /\ WorkerActiveCount = 1
    /\ \E w, v \in Workers :
          /\ wpc[w] = "crawl"
          /\ wpc[v] = "loadOrStore"
          /\ wjob[v] = wjob[w]
          /\ GetName(wjob[v]) \in activeProviders

C34_HashLookupErrorChangesNothing ==
    /\ [](LET b == pb[Direct]
          IN  (b.pc = "err" /\ b.upsert = "none")
                 => /\ store = b.before
                    /\ b.publish = "none"
                    /\ b.published = {}
                    /\ b.publishErrors = 0)
    /\ [][(pb[Direct].pc = "hashes" /\ pb'[Direct].pc # "upsert" /\ pb' # pb)
              => /\ pb'[Direct].pc = "err"
                 /\ pb'[Direct].upsert = "none"
                 /\ pb'[Direct].publish = "none"
                 /\ store' = store]_vars

\* the hash lookup of a batch with a changed article failed after an earlier
\* call had stored the first version
C34_Witness ==
    /\ pb[Direct].pc = "err"
    /\ pb[Direct].upsert = "none"
    /\ pb[Direct].input = <<A1b>>
    /\ store["s_1"] # Absent
    /\ store["s_1"].body = A1.body

(***************************************************************************)
(* Properties of what the breaker counts                                   *)
(***************************************************************************)
\* the breaker went from a to b by counting one failure: one more
\* consecutive failure of a closed breaker, or the trip that failure causes,
\* or the re-opening of a half-open breaker
OneFailureCounted(a, b) ==
    \/ /\ a.state = "closed" /\ b.state = "closed"
       /\ b.consecutiveFailures = a.consecutiveFailures + 1
       /\ b.consecutiveFailures < cbTripThreshold
    \/ /\ a.state = "closed" /\ b.state = "open"
       /\ a.consecutiveFailures + 1 >= cbTripThreshold
    \/ /\ a.state = "halfOpen" /\ b.state = "open"

\* the breaker's state and counts
CbCounts(b) == <<b.state, b.requests, b.consecutiveSuccesses, b.consecutiveFailures>>

\* the wrapped function of the direct caller's request returns an error in
\* this step
RequestFails ==
    /\ req[Direct].pc \in {"attempt", "backoff"}
    /\ req'[Direct].pc = "done"
    /\ req'[Direct].result = "fail"

\* neither an attempt that is retried, nor the transformer's result, nor the
\* handler's result changes the breaker's state or counts
OnlyFetchOutcomesCount ==
    /\ (req[Direct].pc = "attempt" /\ req'[Direct].pc = "backoff")
          => CbCounts(cb'[DirectProvider]) = CbCounts(cb[DirectProvider])
    /\ (req[Direct].pc = "backoff" /\ req'[Direct].pc = "attempt")
          => cb' = cb
    /\ (crawl[Direct].pc = "fetch" /\ crawl'[Direct].pc # "fetch") => cb' = cb
    /\ (crawl[Direct].pc = "handler" /\ crawl'[Direct].pc # "handler") => cb' = cb

C36_CrawlErrorOnlyOnFetchOrFiveHandlerErrors ==
    /\ [](\A w \in Workers :
             LET c == crawl[w]
             IN  /\ (c.pc = "done" /\ c.err)
                       => \/ c.abort = "fetch"
                          \/ /\ c.abort = "handler"
                             /\ c.consecutiveErrors = maxConsecutiveErrors
                 /\ (c.pc = "done" /\ c.abort # "fetch" /\ c.allFailed
                                   /\ c.handled < maxConsecutiveErrors)
                       => /\ ~c.err
                          /\ c.abort = "none"
                          /\ c.empty \/ CrawlLoopEnds(w))
    /\ [][\A w \in Workers :
             (wpc[w] = "crawl" /\ wpc'[w] = "recv")
                => crawl'[w].returned = IF crawl[w].err THEN "err" ELSE "ok"]_vars

\* a crawl of three pages whose handler failed on each of them has ended on
\* the number of pages the upstream reported and returned nil
C36_Witness ==
    \E w \in Workers :
        /\ wpc[w] = "crawl"
        /\ crawl[w].pc = "done"
        /\ ~crawl[w].err
        /\ crawl[w].allFailed
        /\ crawl[w].handled = 3
        /\ crawl[w].lastHandler = "err"
        /\ ~crawl[w].empty

(***************************************************************************)
(* Properties of the consumer's end                                        *)
(***************************************************************************)
\* C37: the consumer loop ends at the first error ReadMessage returns and is
\* not started again: from then on no message is read, decoded, synced to
\* the CMS or published to the DLQ.
C37_ConsumerStopsAtFirstReadError ==
    /\ [](/\ sync.readErrors <= 1
          /\ sync.readErrors = 1 <=> sync.pc = "stopped")
    /\ [][/\ sync.pc = "stopped" => sync' = sync
          /\ sync'.readErrors # sync.readErrors
                => /\ sync.pc = "read"
                   /\ sync'.pc = "stopped"
                   /\ sync'.consumed = sync.consumed
                   /\ sync'.cmsCalls = sync.cmsCalls
                   /\ sync'.dlqTopic = sync.dlqTopic]_vars

\* the consumer stopped on a read error after it had synced a message, with
\* messages of the topic left unread
C37_Witness ==
    /\ sync.pc = "stopped"
    /\ sync.readErrors = 1
    /\ sync.consumed = 1
    /\ sync.cmsResult = "ok"
    /\ sync.consumed < MaxMsgs

(***************************************************************************)
(* Properties of the dummy transformer                                     *)
(***************************************************************************)
\* C38: DummyTransformer.Transform returns normally, with NumPages 1, for
\* every decodable response whatever the length of an item's content, and
\* the summary of each article is the first 10 bytes of the content followed
\* by "...".
C38_DummyTransformNeverAborts ==
    \A r \in entries :
        /\ ~r.article.panicked
        /\ r.article.numPages = 1
        /\ r.article.body = r.entry
        /\ r.article.summary =
              [i \in 1..(dummySummaryLen + 3) |->
                  IF i <= dummySummaryLen THEN r.entry[i] ELSE "."]

(***************************************************************************)
(* Properties of the single-flight key                                     *)
(***************************************************************************)
\* C39: a worker skips a job only when a crawl of the same configured source
\* is in flight; a crawl of one configured source never makes the guard drop
\* the job of another.
C39_SkipOnlyForSameSource ==
    [][\A w \in Workers :
          (wpc[w] = "loadOrStore" /\ wpc'[w] = "recv")
             => \E v \in Workers \ {w} :
                   wpc[v] = "crawl" /\ wjob[v] = wjob[w]]_vars

(***************************************************************************)
(* Properties of a run without cancellation                                *)
(***************************************************************************)
\* a worker is crawling the configured source p
CrawlingSource(p) == \E w \in Workers : wpc[w] = "crawl" /\ wjob[w] = p

\* C40: without cancellation, under fair scheduling, with terminating crawls
\* and tickers that keep firing, the first job of every configured provider
\* is enqueued at the start of its loop, every configured provider is crawled
\* at least once, and it is crawled again and again for ever.
C40_EveryProviderCrawledForever ==
    /\ [][\A p \in DOMAIN ppc :
             (ppc[p] = "initial" /\ ppc'[p] # "initial")
                => jobs' = Append(jobs, p)]_vars
    /\ \A p \in Providers \cup TwinProviders :
          (p \in DOMAIN ppc)
             => /\ <>CrawlingSource(p)
                /\ []<>CrawlingSource(p)

====
